---- MODULE Spec2Model ----
(***************************************************************************)
(* shrmpl-kv-srv: the in-memory key-value server of src/shrmpl_kv_srv.rs.  *)
(* Text is modelled as sequences of one-character strings, so that the     *)
(* parsing and formatting the server does is computed, not assumed.        *)
(***************************************************************************)
EXTENDS Integers, Sequences, FiniteSets, TLC

(* ------------------------------ bounds -------------------------------- *)

\* connections the listener sees in the full system specification
NConns == 2
\* clients that increment one key concurrently (SpecIncr)
NIncr == 3
\* lines one client sends on its connection
MaxLines == 1
\* lines the single client of the store-law specifications sends
MaxLawLines == 3
\* the clock runs from 0 to MaxTime (seconds)
MaxTime == 2
\* heartbeat ticks per connection
MaxBeats == 1
\* lines the batching client of SpecBatch sends
MaxBatchLines == 2

(* ------------------------- program constants -------------------------- *)

\* key.len() > 100, value_str.len() > 100
MaxTokenLen == 100
\* commands.len() > 3
MaxBatch == 3
\* Duration::from_secs(secs * 60), Duration::from_secs(hours * 3600)
SecsPerMin == 60
SecsPerHour == 3600

(* ------------------------------- state -------------------------------- *)

VARIABLES
    store,          \* the HashMap behind the RwLock
    lockW,          \* tasks holding the RwLock's write guard
    lockR,          \* tasks holding a read guard
    now,            \* SystemTime::now(), in seconds
    conn,           \* per connection: where its handler task is, and its locals
    nlines,         \* lines each handler has read
    inp,            \* history: the lines each handler has read, in order
    wire,           \* per connection: the bytes of a line on their way to the server
    sink,           \* the logging sink: "disabled", "reachable" or "unreachable"
    cli,            \* per connection, the client: lines it has read, results it got
    build,          \* how the server was compiled: "debug" or "release"
    beats,          \* heartbeat ticks each handler has taken
    peer,           \* the client's end of each connection: "open" or "closed"
    out,            \* per connection, the chunks written to the socket, in order
    rx,             \* per shutdown receiver: a broadcast message is waiting
    sigPc,          \* the ctrl_c watcher: "wait" or "sent"
    mainPc,         \* main: "accept" (in the select), "logdown", "returned"
    sweep,          \* the cleanup task: pc "idle" / "crit" / "done", and its now
    hist,           \* history: the store commands in the order of their critical sections
    openAtShutdown  \* history: handlers that were open when the broadcast was sent

vars == <<wire, sink, cli, build, store, lockW, lockR, now, conn, nlines, inp, beats, peer, out, rx, sigPc,
          mainPc, sweep, hist, openAtShutdown>>

(* ------------------------------- text --------------------------------- *)

Digits == {"0", "1", "2", "3", "4", "5", "6", "7", "8", "9"}

\* char::is_whitespace, for the characters the model's lines are made of
WhiteSpace == {" ", "\n", "\t", "\r"}

DigitVal(ch) ==
    CASE ch = "0" -> 0 [] ch = "1" -> 1 [] ch = "2" -> 2 [] ch = "3" -> 3
      [] ch = "4" -> 4 [] ch = "5" -> 5 [] ch = "6" -> 6 [] ch = "7" -> 7
      [] ch = "8" -> 8 [] ch = "9" -> 9

DigitChar(d) ==
    CASE d = 0 -> "0" [] d = 1 -> "1" [] d = 2 -> "2" [] d = 3 -> "3"
      [] d = 4 -> "4" [] d = 5 -> "5" [] d = 6 -> "6" [] d = 7 -> "7"
      [] d = 8 -> "8" [] d = 9 -> "9"

\* str::starts_with
StartsWith(s, p) == Len(s) >= Len(p) /\ SubSeq(s, 1, Len(p)) = p

\* str::ends_with
EndsWith(s, p) == Len(s) >= Len(p) /\ SubSeq(s, Len(s) - Len(p) + 1, Len(s)) = p

\* str::trim_end_matches: the suffix is removed as often as it is found
RECURSIVE TrimEndMatches(_, _)
TrimEndMatches(s, p) ==
    IF EndsWith(s, p) THEN TrimEndMatches(SubSeq(s, 1, Len(s) - Len(p)), p) ELSE s

\* str::trim_end
RECURSIVE TrimEnd(_)
TrimEnd(s) ==
    IF s # <<>> /\ s[Len(s)] \in WhiteSpace THEN TrimEnd(SubSeq(s, 1, Len(s) - 1)) ELSE s

\* str::trim_start
RECURSIVE TrimStart(_)
TrimStart(s) ==
    IF s # <<>> /\ Head(s) \in WhiteSpace THEN TrimStart(Tail(s)) ELSE s

\* str::trim
Trim(s) == TrimStart(TrimEnd(s))

\* the position of the first whitespace of s, Len(s) + 1 when it has none
FirstWs(s) ==
    CHOOSE i \in 1..(Len(s) + 1) :
        /\ i = Len(s) + 1 \/ s[i] \in WhiteSpace
        /\ \A j \in 1..(i - 1) : s[j] \notin WhiteSpace

\* str::split_whitespace().collect(): the non-empty runs of non-whitespace
RECURSIVE SplitWhitespace(_)
SplitWhitespace(s) ==
    LET rest == TrimStart(s)
    IN  IF rest = <<>> THEN <<>>
        ELSE <<SubSeq(rest, 1, FirstWs(rest) - 1)>> \o
             SplitWhitespace(SubSeq(rest, FirstWs(rest), Len(rest)))

\* str::split(sep).collect(): the pieces between the separators, empty
\* pieces kept
RECURSIVE Split(_, _)
Split(s, sep) ==
    IF \A i \in DOMAIN s : s[i] # sep THEN <<s>>
    ELSE LET first == CHOOSE i \in DOMAIN s :
                          s[i] = sep /\ \A j \in 1..(i - 1) : s[j] # sep
         IN  <<SubSeq(s, 1, first - 1)>> \o Split(SubSeq(s, first + 1, Len(s)), sep)

RECURSIVE JoinWith(_, _)
JoinWith(ss, sep) ==
    IF ss = <<>> THEN <<>>
    ELSE IF Len(ss) = 1 THEN ss[1]
         ELSE ss[1] \o sep \o JoinWith(Tail(ss), sep)

RECURSIVE DigitsValue(_, _)
DigitsValue(s, acc) ==
    IF s = <<>> THEN acc ELSE DigitsValue(Tail(s), 10 * acc + DigitVal(Head(s)))

AllDigits(s) == s # <<>> /\ \A i \in 1..Len(s) : s[i] \in Digits

RECURSIVE FormatNat(_)
FormatNat(n) ==
    IF n < 10 THEN <<DigitChar(n)>> ELSE Append(FormatNat(n \div 10), DigitChar(n % 10))

\* format!("{}", i) of an integer
FormatInt(i) == IF i < 0 THEN <<"-">> \o FormatNat(0 - i) ELSE FormatNat(i)

(* decimal numerals: numbers beyond the range of the model's integers are  *)
(* kept as their digits, most significant first, and computed with on paper *)

RECURSIVE StripZeros(_)
StripZeros(d) == IF Len(d) > 1 /\ Head(d) = "0" THEN StripZeros(Tail(d)) ELSE d

\* a <= b for numerals without leading zeros
BigLeq(a, b) ==
    LET RECURSIVE LexLeq(_, _)
        LexLeq(x, y) ==
            IF x = <<>> THEN TRUE
            ELSE IF Head(x) = Head(y) THEN LexLeq(Tail(x), Tail(y))
                 ELSE DigitVal(Head(x)) < DigitVal(Head(y))
    IN  Len(a) < Len(b) \/ (Len(a) = Len(b) /\ LexLeq(a, b))

BigAdd(a, b) ==
    LET Front(d) == IF d = <<>> THEN <<>> ELSE SubSeq(d, 1, Len(d) - 1)
        Last(d) == IF d = <<>> THEN 0 ELSE DigitVal(d[Len(d)])
        RECURSIVE AddCarry(_, _, _)
        AddCarry(x, y, carry) ==
            IF x = <<>> /\ y = <<>>
            THEN IF carry = 0 THEN <<>> ELSE <<DigitChar(carry)>>
            ELSE Append(AddCarry(Front(x), Front(y), (Last(x) + Last(y) + carry) \div 10),
                        DigitChar((Last(x) + Last(y) + carry) % 10))
    IN  StripZeros(AddCarry(a, b, 0))

\* a - b, for a >= b
BigSub(a, b) ==
    LET Front(d) == IF d = <<>> THEN <<>> ELSE SubSeq(d, 1, Len(d) - 1)
        Last(d) == IF d = <<>> THEN 0 ELSE DigitVal(d[Len(d)])
        RECURSIVE SubBorrow(_, _, _)
        SubBorrow(x, y, borrow) ==
            IF x = <<>> THEN <<>>
            ELSE LET z == Last(x) - Last(y) - borrow
                 IN  Append(SubBorrow(Front(x), Front(y), IF z < 0 THEN 1 ELSE 0),
                            DigitChar(IF z < 0 THEN z + 10 ELSE z))
    IN  StripZeros(SubBorrow(a, b, 0))

\* a * k for a small k
BigMul(a, k) ==
    LET RECURSIVE MulCarry(_, _)
        MulCarry(x, carry) ==
            IF x = <<>> THEN IF carry = 0 THEN <<>> ELSE FormatNat(carry)
            ELSE LET z == DigitVal(x[Len(x)]) * k + carry
                 IN  Append(MulCarry(SubSeq(x, 1, Len(x) - 1), z \div 10), DigitChar(z % 10))
    IN  StripZeros(MulCarry(a, 0))

\* a numeral the model's integers hold
Narrow(d) == Len(d) <= 9

\* u64::MAX, 2^64, i64::MAX and the magnitude of i64::MIN
U64Max == <<"1","8","4","4","6","7","4","4","0","7","3","7","0","9","5","5","1","6","1","5">>
TwoPow64 == <<"1","8","4","4","6","7","4","4","0","7","3","7","0","9","5","5","1","6","1","6">>
I64Max == <<"9","2","2","3","3","7","2","0","3","6","8","5","4","7","7","5","8","0","7">>
I64MinMagnitude == <<"9","2","2","3","3","7","2","0","3","6","8","5","4","7","7","5","8","0","8">>

\* a mod 2^64, for a below 10000 * 2^64: what a wrapping u64 multiplication
\* by 60 or 3600 leaves of the product a
WrapU64(a) ==
    LET RECURSIVE ReduceBy(_, _)
        ReduceBy(x, m) == IF BigLeq(m, x) THEN ReduceBy(BigSub(x, m), m) ELSE x
    IN
    ReduceBy(ReduceBy(ReduceBy(ReduceBy(a, TwoPow64 \o <<"0", "0", "0">>),
                               TwoPow64 \o <<"0", "0">>),
                      TwoPow64 \o <<"0">>),
             TwoPow64)

\* str::parse::<u64>: an optional '+', then one or more decimal digits, of a
\* number up to u64::MAX. The result is an Option, modelled as a set with
\* at most one element: the number's numeral.
ParseU64(s) ==
    LET body == IF s # <<>> /\ Head(s) = "+" THEN Tail(s) ELSE s
    IN  IF AllDigits(body) /\ BigLeq(StripZeros(body), U64Max)
        THEN {StripZeros(body)} ELSE {}

\* str::parse::<i64>: an optional '+' or '-', then one or more decimal
\* digits, of a number from i64::MIN to i64::MAX: its sign and numeral
ParseI64(s) ==
    LET neg  == s # <<>> /\ Head(s) = "-"
        body == IF s # <<>> /\ Head(s) \in {"+", "-"} THEN Tail(s) ELSE s
    IN  IF AllDigits(body)
           /\ BigLeq(StripZeros(body), IF neg THEN I64MinMagnitude ELSE I64Max)
        THEN {[neg |-> neg, digits |-> StripZeros(body)]}
        ELSE {}

\* parse_expiration without its arithmetic: the number and the seconds per
\* unit, or nothing for a token that is no TTL
ExpirationUnits(exp_str) ==
    IF EndsWith(exp_str, <<"s">>)
    THEN {[n |-> n, per |-> 1] : n \in ParseU64(TrimEndMatches(exp_str, <<"s">>))}
    ELSE IF EndsWith(exp_str, <<"m", "i", "n">>)
         THEN {[n |-> n, per |-> SecsPerMin] :
                  n \in ParseU64(TrimEndMatches(exp_str, <<"m", "i", "n">>))}
         ELSE IF EndsWith(exp_str, <<"h">>)
              THEN {[n |-> n, per |-> SecsPerHour] :
                       n \in ParseU64(TrimEndMatches(exp_str, <<"h">>))}
              ELSE {}

\* parse_expiration panics: secs * 60 or hours * 3600 leaves the range of
\* u64 in a build that checks it
ParseExpirationPanics(exp_str, checked) ==
    /\ checked
    /\ \E u \in ExpirationUnits(exp_str) : ~BigLeq(BigMul(u.n, u.per), U64Max)

\* the seconds of the Duration parse_expiration returns (where it returns):
\* the product, wrapped when it overflows
DurationSecs(exp_str) ==
    {WrapU64(BigMul(u.n, u.per)) : u \in ExpirationUnits(exp_str)}

\* SystemTime::now() + duration panics: the sum leaves the range of the
\* clock's signed 64-bit seconds
AddPanics(exp_str, t) ==
    \E d \in DurationSecs(exp_str) : ~BigLeq(BigAdd(FormatNat(t), d), I64Max)

\* parse_expiration: Option<Duration> in seconds, for the durations the
\* model's integers hold
parse_expiration(exp_str) == {DigitsValue(d, 0) : d \in DurationSecs(exp_str)}

(* --------------------------- wire literals ---------------------------- *)

NL == <<"\n">>
PONG == <<"P","O","N","G","\n">>
OK == <<"O","K","\n">>
ERR_UNKNOWN_COMMAND == <<"E","R","R","O","R"," ","u","n","k","n","o","w","n"," ","c","o","m","m","a","n","d","\n">>
ERR_INVALID_ARGUMENTS == <<"E","R","R","O","R"," ","i","n","v","a","l","i","d"," ","a","r","g","u","m","e","n","t","s","\n">>
ERR_INVALID_LENGTH == <<"E","R","R","O","R"," ","i","n","v","a","l","i","d"," ","l","e","n","g","t","h","\n">>
ERR_INVALID_EXPIRATION == <<"E","R","R","O","R"," ","i","n","v","a","l","i","d"," ","e","x","p","i","r","a","t","i","o","n","\n">>
ERR_KEY_NOT_FOUND == <<"E","R","R","O","R"," ","k","e","y"," ","n","o","t"," ","f","o","u","n","d","\n">>
KEY_NOT_FOUND_MARKER == <<"*","K","E","Y"," ","N","O","T"," ","F","O","U","N","D","*","\n">>
ERR_TOO_MANY_COMMANDS == <<"E","R","R","O","R"," ","t","o","o"," ","m","a","n","y"," ","c","o","m","m","a","n","d","s","\n">>
UPONG == <<"U","P","O","N","G","\n">>
TERM == <<"T","E","R","M","\n">>
BATCH_PREFIX == <<"B","A","T","C","H"," ">>
NO_EXPIRATION == <<"n","o","-","e","x","p","i","r","a","t","i","o","n">>

W_PING == <<"P","I","N","G">>
W_GET == <<"G","E","T">>
W_SET == <<"S","E","T">>
W_INCR == <<"I","N","C","R">>
W_DEL == <<"D","E","L">>
W_LIST == <<"L","I","S","T">>


(* ------------------------------ the store ----------------------------- *)

\* enum Value { Int(i64), Str(String) }
IntV(i) == [tag |-> "Int", i |-> i]
StrV(s) == [tag |-> "Str", s |-> s]

\* Value::Int(i) for an i beyond the model's integers: its sign and numeral
WideV(neg, digits) == [tag |-> "Wide", neg |-> neg, digits |-> digits]

\* Value::Int of the number with this sign and numeral
I64Value(neg, digits) ==
    IF Narrow(digits)
    THEN IntV(IF neg THEN 0 - DigitsValue(digits, 0) ELSE DigitsValue(digits, 0))
    ELSE WideV(neg, digits)

\* struct StoredValue { value, expires_at: Option<SystemTime> }
StoredValue(value, expires_at) == [value |-> value, expires_at |-> expires_at]

\* HashMap::new()
EmptyStore == [k \in {} |-> StoredValue(IntV(0), {})]

\* HashMap::get as an Option
Lookup(st, key) == IF key \in DOMAIN st THEN {st[key]} ELSE {}

\* format!("{}\n", i) / format!("{}\n", s) of a stored value, without the newline
ValueText(v) ==
    CASE v.tag = "Int" -> FormatInt(v.i)
      [] v.tag = "Wide" -> (IF v.neg THEN <<"-">> ELSE <<>>) \o v.digits
      [] v.tag = "Str" -> v.s

\* exp_time <= SystemTime::now()
Expired(stored, t) == \E exp_time \in stored.expires_at : exp_time <= t

\* what a critical section does to the map: keys removed, entries inserted
NoEffect == [remove |-> {}, insert |-> EmptyStore]
RemoveEffect(key) == [remove |-> {key}, insert |-> EmptyStore]
InsertEffect(key, stored) == [remove |-> {}, insert |-> [k \in {key} |-> stored]]

\* HashMap::remove / HashMap::insert
ApplyEffect(st, eff) ==
    [k \in (DOMAIN st \ eff.remove) \cup DOMAIN eff.insert |->
        IF k \in DOMAIN eff.insert THEN eff.insert[k] ELSE st[k]]

\* (mutant) an entry whose expiration is exactly now is kept
RetainKeepsDue(st, t) ==
    [k \in {x \in DOMAIN st : \A exp_time \in st[x].expires_at : exp_time >= t} |-> st[k]]

\* store_write.retain(|_, v| match v.expires_at { Some(e) => e > now, None => true })
Retain(st, t) == [k \in {x \in DOMAIN st : ~Expired(st[x], t)} |-> st[k]]

(* ---------------------- process_single_command ------------------------ *)

\* a command that returns before it reaches the store
Done(reply) == [kind |-> "done", reply |-> reply]

\* a command that goes on to take the store lock; entry is SET's StoredValue
Request(op, parts, entry) ==
    [kind |-> "store", op |-> op, parts |-> parts, entry |-> entry]

NoRequest == [kind |-> "none"]

\* a command that panics before it reaches the store
Panic == [kind |-> "panic"]

\* (mutant) SET stores every value as text
SetValueAlwaysText(value_str) == StrV(value_str)

\* SET: the value is an Int when it parses as i64, a Str otherwise
SetValue(value_str) ==
    IF ParseI64(value_str) # {}
    THEN LET i == CHOOSE x \in ParseI64(value_str) : TRUE
         IN  I64Value(i.neg, i.digits)
    ELSE StrV(value_str)

\* (mutant) no token is too long
TooLongNever(token) == FALSE

\* (mutant) the limit is one byte short: a token of MaxTokenLen bytes is too long
TooLongOffByOne(token) == Len(token) >= MaxTokenLen

\* key.len() > 100, value.len() > 100
TooLong(token) == Len(token) > MaxTokenLen

\* process_single_command up to the point where it awaits the store lock:
\* argument counts, lengths, and for SET the expiration, read at time t;
\* SET panics where its expiration's arithmetic does
Validate(parts, t) ==
    IF parts = <<>> THEN Done(ERR_UNKNOWN_COMMAND)
    ELSE LET cmd == parts[1]
         IN  CASE cmd = W_PING -> Done(PONG)
               [] cmd = W_GET ->
                    IF Len(parts) # 2 THEN Done(ERR_INVALID_ARGUMENTS)
                    ELSE IF TooLong(parts[2]) THEN Done(ERR_INVALID_LENGTH)
                    ELSE Request("GET", parts, {})
               [] cmd = W_SET ->
                    IF Len(parts) < 3 \/ Len(parts) > 4 THEN Done(ERR_INVALID_ARGUMENTS)
                    ELSE IF TooLong(parts[2]) \/ TooLong(parts[3])
                         THEN Done(ERR_INVALID_LENGTH)
                    ELSE IF Len(parts) = 4 /\ ParseExpirationPanics(parts[4], build = "debug")
                         THEN Panic
                    ELSE IF Len(parts) = 4 /\ DurationSecs(parts[4]) = {}
                         THEN Done(ERR_INVALID_EXPIRATION)
                    ELSE IF Len(parts) = 4 /\ AddPanics(parts[4], t)
                         THEN Panic
                    ELSE LET expires_at ==
                                 IF Len(parts) = 4
                                 THEN {t + d : d \in parse_expiration(parts[4])}
                                 ELSE {}
                         IN  Request("SET", parts, {StoredValue(SetValue(parts[3]), expires_at)})
               [] cmd = W_INCR ->
                    IF Len(parts) < 2 \/ Len(parts) > 3 THEN Done(ERR_INVALID_ARGUMENTS)
                    ELSE IF TooLong(parts[2]) THEN Done(ERR_INVALID_LENGTH)
                    ELSE Request("INCR", parts, {})
               [] cmd = W_DEL ->
                    IF Len(parts) # 2 THEN Done(ERR_INVALID_ARGUMENTS)
                    ELSE IF TooLong(parts[2]) THEN Done(ERR_INVALID_LENGTH)
                    ELSE Request("DEL", parts, {})
               [] cmd = W_LIST ->
                    IF Len(parts) # 1 THEN Done(ERR_INVALID_ARGUMENTS)
                    ELSE Request("LIST", parts, {})
               [] OTHER -> Done(ERR_UNKNOWN_COMMAND)

\* what a critical section computes: the reply and its effect on the map
Outcome(reply, eff) == [reply |-> reply, eff |-> eff, panic |-> FALSE]

\* a critical section that panics: nothing was inserted yet, no reply
Panics == [reply |-> <<>>, eff |-> NoEffect, panic |-> TRUE]

\* GET under the write lock
GetExec(st, key, t) ==
    IF key \in DOMAIN st
    THEN IF Expired(st[key], t)
         THEN Outcome(ERR_KEY_NOT_FOUND, RemoveEffect(key))
         ELSE Outcome(ValueText(st[key].value) \o NL, NoEffect)
    ELSE Outcome(KEY_NOT_FOUND_MARKER, NoEffect)

\* SET under the write lock
SetExec(key, stored) == Outcome(OK, InsertEffect(key, stored))

\* (mutant) a text value counts as 0 and the increment is forgotten
IncrNewValTextZero(current, t) ==
    IF current = {} THEN 1
    ELSE LET stored == CHOOSE x \in current : TRUE
         IN  IF Expired(stored, t) THEN 1
             ELSE IF stored.value.tag = "Int" THEN stored.value.i + 1 ELSE 0

\* INCR: let new_val = match current { ... }
IncrNewVal(current, t) ==
    IF current = {} THEN 1
    ELSE LET stored == CHOOSE x \in current : TRUE
         IN  IF Expired(stored, t) THEN 1
             ELSE IF stored.value.tag = "Int" THEN stored.value.i + 1 ELSE 1

\* (mutant) the TTL argument is applied also when the key has an entry
IncrExpiresAtAlways(parts, current, t) ==
    IF Len(parts) = 3
    THEN [ok |-> DurationSecs(parts[3]) # {},
          expires_at |-> {t + d : d \in parse_expiration(parts[3])}]
    ELSE [ok |-> TRUE,
          expires_at |-> UNION {stored.expires_at : stored \in current}]

\* (mutant) the entry's expiration is not carried over to the new entry
IncrExpiresAtDropped(parts, current, t) ==
    IF Len(parts) = 3 /\ current = {}
    THEN [ok |-> DurationSecs(parts[3]) # {},
          expires_at |-> {t + d : d \in parse_expiration(parts[3])}]
    ELSE [ok |-> TRUE, expires_at |-> {}]

\* INCR: let expires_at = if parts.len() == 3 && current.is_none() { ... } else
\* { current.and_then(|stored| stored.expires_at) }; ok is FALSE on the early
\* return for an expiration that does not parse
IncrExpiresAt(parts, current, t) ==
    IF Len(parts) = 3 /\ current = {}
    THEN [ok |-> DurationSecs(parts[3]) # {},
          expires_at |-> {t + d : d \in parse_expiration(parts[3])}]
    ELSE [ok |-> TRUE,
          expires_at |-> UNION {stored.expires_at : stored \in current}]

\* INCR of a live Int beyond the model's integers: i + 1 as a numeral; at
\* i64::MAX the addition overflows: a panic in a build that checks it,
\* i64::MIN in one that does not
IncrWide(key, stored) ==
    IF stored.value = WideV(FALSE, I64Max)
    THEN IF build = "debug" THEN Panics
         ELSE Outcome(ValueText(WideV(TRUE, I64MinMagnitude)) \o NL,
                      InsertEffect(key, StoredValue(WideV(TRUE, I64MinMagnitude),
                                                    stored.expires_at)))
    ELSE LET new_val == IF stored.value.neg
                        THEN I64Value(TRUE, BigSub(stored.value.digits, <<"1">>))
                        ELSE I64Value(FALSE, BigAdd(stored.value.digits, <<"1">>))
         IN  Outcome(ValueText(new_val) \o NL,
                     InsertEffect(key, StoredValue(new_val, stored.expires_at)))

\* INCR under the write lock
IncrExec(st, parts, t) ==
    LET key     == parts[2]
        current == Lookup(st, key)
        new_val == IncrNewVal(current, t)
        value   == IF Narrow(FormatNat(IF new_val < 0 THEN 0 - new_val ELSE new_val))
                   THEN IntV(new_val)
                   ELSE WideV(new_val < 0, FormatNat(IF new_val < 0 THEN 0 - new_val ELSE new_val))
        exp     == IncrExpiresAt(parts, current, t)
    IN  IF \E stored \in current : ~Expired(stored, t) /\ stored.value.tag = "Wide"
        THEN IncrWide(key, CHOOSE stored \in current : TRUE)
        ELSE IF Len(parts) = 3 /\ current = {}
                /\ ParseExpirationPanics(parts[3], build = "debug")
        THEN Panics
        ELSE IF ~exp.ok THEN Outcome(ERR_INVALID_EXPIRATION, NoEffect)
        ELSE IF Len(parts) = 3 /\ current = {} /\ AddPanics(parts[3], t)
        THEN Panics
        ELSE Outcome(ValueText(value) \o NL,
                     InsertEffect(key, StoredValue(value, exp.expires_at)))

\* DEL under the write lock
DelExec(st, key, t) ==
    IF key \in DOMAIN st
    THEN IF Expired(st[key], t)
         THEN Outcome(ERR_KEY_NOT_FOUND, RemoveEffect(key))
         ELSE Outcome(OK, RemoveEffect(key))
    ELSE Outcome(KEY_NOT_FOUND_MARKER, NoEffect)

\* LIST: format!("{}={},{}\n", key, value_str, expiration_str)
ListLine(key, stored) ==
    key \o <<"=">> \o ValueText(stored.value) \o <<",">> \o
    (IF stored.expires_at = {} THEN NO_EXPIRATION
     ELSE FormatInt(CHOOSE e \in stored.expires_at : TRUE)) \o NL

RECURSIVE ListLines(_, _)
ListLines(st, order) ==
    IF order = <<>> THEN <<>>
    ELSE ListLine(Head(order), st[Head(order)]) \o ListLines(st, Tail(order))

\* the orders in which the map's iterator may yield the keys
IterOrders(st) ==
    {o \in [1..Cardinality(DOMAIN st) -> DOMAIN st] :
        \A i, j \in DOMAIN o : i # j => o[i] # o[j]}

\* LIST under the read lock, the iterator yielding the keys in this order
ListExec(st, order) ==
    Outcome(IF ListLines(st, order) = <<>> THEN NL ELSE ListLines(st, order), NoEffect)

\* (mutant) SET without a TTL keeps the expiration of the entry it replaces
StoreExecSetKeepsExpiration(req, st, t, order) ==
    CASE req.op = "GET" -> GetExec(st, req.parts[2], t)
      [] req.op = "SET" ->
            LET stored == CHOOSE e \in req.entry : TRUE
                key    == req.parts[2]
            IN  SetExec(key, IF stored.expires_at = {} /\ key \in DOMAIN st
                             THEN StoredValue(stored.value, st[key].expires_at)
                             ELSE stored)
      [] req.op = "INCR" -> IncrExec(st, req.parts, t)
      [] req.op = "DEL" -> DelExec(st, req.parts[2], t)
      [] req.op = "LIST" -> ListExec(st, order)

\* the critical section of a request
StoreExec(req, st, t, order) ==
    CASE req.op = "GET" -> GetExec(st, req.parts[2], t)
      [] req.op = "SET" -> SetExec(req.parts[2], CHOOSE e \in req.entry : TRUE)
      [] req.op = "INCR" -> IncrExec(st, req.parts, t)
      [] req.op = "DEL" -> DelExec(st, req.parts[2], t)
      [] req.op = "LIST" -> ListExec(st, order)


(* ------------------------------ the system ---------------------------- *)

ConnIds == 1..(IF NIncr > NConns THEN NIncr ELSE NConns)

\* the tasks besides the handlers (a handler is named by its connection)
MainTask == 0
SweeperTask == -1

\* the receivers of the shutdown broadcast, each named by its task
Receivers == ConnIds \cup {MainTask, SweeperTask}

NoOutcome == Outcome(<<>>, NoEffect)

\* a handler's locals at program point pc, nothing in progress; line is the
\* trimmed line it is processing, held the bytes that the read_line future
\* of this turn of the loop has taken from the reader
Handler(pc) ==
    [pc |-> pc, line |-> <<>>, batch |-> FALSE, todo |-> <<>>, results |-> <<>>,
     req |-> NoRequest, cs |-> NoOutcome, t |-> 0, resp |-> <<>>, held |-> <<>>]

\* what the configuration can make of the logger: SEND_LOG off, or on with
\* the server at SLOG_DEST accepting the lines or not
Sinks == {"disabled", "reachable", "unreachable"}

\* the state main has built when it enters the accept loop
Started ==
    /\ store = EmptyStore
    /\ lockW = {}
    /\ lockR = {}
    /\ now = 0
    /\ conn = [c \in ConnIds |-> Handler("none")]
    /\ nlines = [c \in ConnIds |-> 0]
    /\ inp = [c \in ConnIds |-> <<>>]
    /\ wire = [c \in ConnIds |-> <<>>]
    /\ cli = [c \in ConnIds |-> [pos |-> 0, got |-> <<>>]]
    /\ beats = [c \in ConnIds |-> 0]
    /\ peer = [c \in ConnIds |-> "open"]
    /\ out = [c \in ConnIds |-> <<>>]
    /\ rx = [r \in Receivers |-> FALSE]
    /\ sigPc = "wait"
    /\ mainPc = "accept"
    /\ sweep = [pc |-> "idle", now |-> 0]
    /\ hist = <<>>
    /\ openAtShutdown = {}

\* the profiles the server can be compiled with: "debug" has overflow
\* checks, "release" has not
Builds == {"debug", "release"}

\* the server started with SEND_LOG off. (A specification whose lines hold
\* no number near the 64-bit limits runs the same under both builds.)
Init == Started /\ sink = "disabled" /\ build = "debug"

\* the server started with any configuration of the logger
InitLog == Started /\ sink \in Sinks /\ build = "debug"

\* the server of either build started with SEND_LOG off
InitBuilds == Started /\ sink = "disabled" /\ build \in Builds

\* process_command's result is logged before it is returned: with the sink
\* enabled the handler is in logger.debug("KVCMDPROC") before it writes
Logged(h) ==
    IF sink # "disabled" /\ h.pc = "write" THEN [h EXCEPT !.pc = "logproc"] ELSE h

\* (mutant) the write guard is handed out whoever holds the lock
CanWriteUnguarded == TRUE

\* (mutant) the write guard is handed out while read guards are held
CanWriteAmongReaders == lockW = {}

\* store.write().await is granted
CanWrite == lockW = {} /\ lockR = {}

\* (mutant) a read guard is handed out while a writer holds the lock
CanReadUnguarded == TRUE

\* store.read().await is granted
CanRead == lockW = {}

\* (mutant) the batch ends at the first sub-command whose result is an error
RECURSIVE BatchAdvanceStopAtError(_, _, _)
BatchAdvanceStopAtError(todo, results, t) ==
    IF \/ todo = <<>>
       \/ results # <<>> /\ StartsWith(results[Len(results)], <<"E", "R", "R", "O", "R">>)
    THEN [Handler("write") EXCEPT !.batch = TRUE,
                                  !.resp = JoinWith(results, <<";">>) \o NL]
    ELSE LET trimmed == Trim(Head(todo))
         IN  IF trimmed = <<>> THEN BatchAdvanceStopAtError(Tail(todo), results, t)
             ELSE LET v == Validate(SplitWhitespace(trimmed), t)
                  IN  IF v.kind = "panic" THEN Handler("panicked")
                      ELSE IF v.kind = "done"
                      THEN BatchAdvanceStopAtError(Tail(todo),
                                                   Append(results, TrimEnd(v.reply)), t)
                      ELSE [Handler("lock") EXCEPT !.batch = TRUE, !.todo = Tail(todo),
                                                   !.results = results, !.req = v]

(* process_command: the sub-commands of a batch are run one after the other; *)
(* the ones that return without the store are run through here, up to the   *)
(* first that awaits the lock, or to the end, where the results are joined.  *)
RECURSIVE BatchAdvance(_, _, _)
BatchAdvance(todo, results, t) ==
    IF todo = <<>>
    THEN [Handler("write") EXCEPT !.batch = TRUE,
                                  !.resp = JoinWith(results, <<";">>) \o NL]
    ELSE LET trimmed == Trim(Head(todo))
         IN  IF trimmed = <<>> THEN BatchAdvance(Tail(todo), results, t)
             ELSE LET v == Validate(SplitWhitespace(trimmed), t)
                  IN  IF v.kind = "panic" THEN Handler("panicked")
                      ELSE IF v.kind = "done"
                      THEN BatchAdvance(Tail(todo), Append(results, TrimEnd(v.reply)), t)
                      ELSE [Handler("lock") EXCEPT !.batch = TRUE, !.todo = Tail(todo),
                                                   !.results = results, !.req = v]

\* (mutant) the number of sub-commands is not limited
ProcessStartUnlimited(line, t) ==
    IF StartsWith(line, BATCH_PREFIX)
    THEN BatchAdvance(Split(SubSeq(line, Len(BATCH_PREFIX) + 1, Len(line)), ";"), <<>>, t)
    ELSE LET v == Validate(SplitWhitespace(line), t)
         IN  IF v.kind = "panic" THEN Handler("panicked")
             ELSE IF v.kind = "done"
             THEN [Handler("write") EXCEPT !.resp = v.reply]
             ELSE [Handler("lock") EXCEPT !.req = v]

\* process_command, from the line to its first await of the lock or its result
ProcessStart(line, t) ==
    IF StartsWith(line, BATCH_PREFIX)
    THEN LET commands == Split(SubSeq(line, Len(BATCH_PREFIX) + 1, Len(line)), ";")
         IN  IF Len(commands) > MaxBatch
             THEN [Handler("write") EXCEPT !.batch = TRUE, !.resp = ERR_TOO_MANY_COMMANDS]
             ELSE BatchAdvance(commands, <<>>, t)
    ELSE LET v == Validate(SplitWhitespace(line), t)
         IN  IF v.kind = "panic" THEN Handler("panicked")
             ELSE IF v.kind = "done"
             THEN [Handler("write") EXCEPT !.resp = v.reply]
             ELSE [Handler("lock") EXCEPT !.req = v]

\* process_command, from the end of a critical section on
ProcessResume(h, t) ==
    IF h.batch
    THEN BatchAdvance(h.todo, Append(h.results, TrimEnd(h.cs.reply)), t)
    ELSE [Handler("write") EXCEPT !.resp = h.cs.reply]

\* listener.accept() yields connection c: its handler is spawned, with a
\* receiver subscribed now
Accept(c) ==
    /\ mainPc = "accept"
    /\ conn[c].pc = "none"
    /\ peer[c] = "open"
    /\ conn' = [conn EXCEPT ![c] = Handler("select")]
    /\ rx' = [rx EXCEPT ![c] = FALSE]
    /\ UNCHANGED <<wire, sink, cli, build, store, lockW, lockR, now, nlines, inp, beats, peer, out, sigPc,
                   mainPc, sweep, hist, openAtShutdown>>

\* listener.accept() yields Err(_): expect("Failed to accept") panics in main,
\* which unwinds out of the accept loop, and the runtime of #[tokio::main] is
\* shut down as it is where main returns
AcceptFails ==
    /\ mainPc = "accept"
    /\ mainPc' = "returned"
    /\ UNCHANGED <<wire, sink, cli, build, store, lockW, lockR, now, conn, nlines, inp, beats, peer, out,
                   rx, sigPc, sweep, hist, openAtShutdown>>

\* a byte that can be part of no UTF-8 text (0xFF)
InvalidByte == "0xFF"

\* std::str::from_utf8 on the bytes of a line, whose other bytes are ASCII
ValidUtf8(line) == \A i \in DOMAIN line : line[i] # InvalidByte

\* (mutant) a line that is empty after trimming is processed like any other
ReadLineAnswersBlank(c, lines, max) ==
    /\ conn[c].pc = "select"
    /\ peer[c] = "open"
    /\ nlines[c] < max
    /\ \E line \in lines :
          /\ conn' = [conn EXCEPT ![c] =
                         [ProcessStart(TrimEnd(line), now) EXCEPT !.line = TrimEnd(line)]]
          /\ inp' = [inp EXCEPT ![c] = Append(@, line)]
    /\ nlines' = [nlines EXCEPT ![c] = @ + 1]
    /\ UNCHANGED <<wire, sink, cli, build, store, lockW, lockR, now, beats, peer, out, rx, sigPc,
                   mainPc, sweep, hist, openAtShutdown>>

\* reader.read_line completes on a line of the client: Ok(n), n > 0, or
\* Err(InvalidData) when its bytes are not UTF-8, and then the handler returns
ReadLine(c, lines, max) ==
    /\ conn[c].pc = "select"
    /\ peer[c] = "open"
    /\ nlines[c] < max
    /\ \E line \in lines :
          LET trimmed == TrimEnd(line)
          IN  /\ conn' = [conn EXCEPT ![c] =
                             IF ~ValidUtf8(line) THEN Handler("closed")
                             ELSE IF trimmed = <<>> THEN Handler("select")
                             ELSE IF sink # "disabled"
                                  THEN [Handler("logrecv") EXCEPT !.line = trimmed]
                             ELSE [ProcessStart(trimmed, now) EXCEPT !.line = trimmed]]
              /\ inp' = [inp EXCEPT ![c] = Append(@, line)]
    /\ nlines' = [nlines EXCEPT ![c] = @ + 1]
    /\ UNCHANGED <<wire, sink, cli, build, store, lockW, lockR, now, beats, peer, out, rx, sigPc,
                   mainPc, sweep, hist, openAtShutdown>>

\* reader.read_line is polled when the first bytes of a line have arrived
\* and the rest has not: the future takes them from the reader and is pending
ReadFragment(c, lines, max) ==
    /\ conn[c].pc = "select"
    /\ peer[c] = "open"
    /\ nlines[c] < max
    /\ wire[c] = <<>>
    /\ \E line \in lines : \E n \in 1..(Len(line) - 1) :
          /\ conn' = [conn EXCEPT ![c].held = SubSeq(line, 1, n)]
          /\ wire' = [wire EXCEPT ![c] = SubSeq(line, n + 1, Len(line))]
    /\ UNCHANGED <<sink, cli, build, store, lockW, lockR, now, nlines, inp, beats, peer, out,
                   rx, sigPc, mainPc, sweep, hist, openAtShutdown>>

\* the rest of the line arrives: reader.read_line completes with the bytes its
\* future holds and the rest, and the line is handled as in ReadLine
ReadLineEnd(c) ==
    /\ conn[c].pc = "select"
    /\ wire[c] # <<>>
    /\ LET line == conn[c].held \o wire[c]
           trimmed == TrimEnd(line)
       IN  /\ conn' = [conn EXCEPT ![c] =
                          IF ~ValidUtf8(line) THEN Handler("closed")
                          ELSE IF trimmed = <<>> THEN Handler("select")
                          ELSE IF sink # "disabled"
                               THEN [Handler("logrecv") EXCEPT !.line = trimmed]
                          ELSE [ProcessStart(trimmed, now) EXCEPT !.line = trimmed]]
           /\ inp' = [inp EXCEPT ![c] = Append(@, line)]
    /\ wire' = [wire EXCEPT ![c] = <<>>]
    /\ nlines' = [nlines EXCEPT ![c] = @ + 1]
    /\ UNCHANGED <<sink, cli, build, store, lockW, lockR, now, beats, peer, out, rx, sigPc,
                   mainPc, sweep, hist, openAtShutdown>>

\* (mutant) a command whose log line cannot be sent is given up
LogRecvGivesUp(c) ==
    /\ conn[c].pc = "logrecv"
    /\ conn' = [conn EXCEPT ![c] =
                    IF sink = "unreachable" THEN Handler("select")
                    ELSE Logged([ProcessStart(conn[c].line, now)
                                    EXCEPT !.line = conn[c].line])]
    /\ UNCHANGED <<wire, sink, cli, build, store, lockW, lockR, now, nlines, inp, beats, peer, out,
                   rx, sigPc, mainPc, sweep, hist, openAtShutdown>>

\* logger.debug("KVCMDRECV", ..) returns, the line sent or send_log failed
\* (its error is printed and dropped): process_command starts
LogRecv(c) ==
    /\ conn[c].pc = "logrecv"
    /\ conn' = [conn EXCEPT ![c] =
                    Logged([ProcessStart(conn[c].line, now) EXCEPT !.line = conn[c].line])]
    /\ UNCHANGED <<wire, sink, cli, build, store, lockW, lockR, now, nlines, inp, beats, peer, out,
                   rx, sigPc, mainPc, sweep, hist, openAtShutdown>>

\* logger.debug("KVCMDPROC", ..) returns: process_command returns its result
LogProc(c) ==
    /\ conn[c].pc = "logproc"
    /\ conn' = [conn EXCEPT ![c].pc = "write"]
    /\ UNCHANGED <<wire, sink, cli, build, store, lockW, lockR, now, nlines, inp, beats, peer, out,
                   rx, sigPc, mainPc, sweep, hist, openAtShutdown>>

\* the lock is granted and the critical section computes its outcome
Acquire(c) ==
    /\ conn[c].pc = "lock"
    /\ IF conn[c].req.op = "LIST"
       THEN /\ CanRead
            /\ lockR' = lockR \cup {c}
            /\ lockW' = lockW
       ELSE /\ CanWrite
            /\ lockW' = lockW \cup {c}
            /\ lockR' = lockR
    /\ \E order \in IterOrders(store) :
          conn' = [conn EXCEPT ![c].pc = "crit",
                               ![c].t = now,
                               ![c].cs = StoreExec(conn[c].req, store, now, order)]
    /\ UNCHANGED <<wire, sink, cli, build, store, now, nlines, inp, beats, peer, out, rx, sigPc, mainPc,
                   sweep, hist, openAtShutdown>>

\* one executed store command, as the history keeps it: n tells it is of the
\* n-th line of connection c
Executed(c, h, st) ==
    [c |-> c, n |-> nlines[c], line |-> h.line,
     parts |-> h.req.parts, t |-> h.t, reply |-> h.cs.reply,
     pre |-> IF h.req.op = "LIST" THEN {} ELSE Lookup(st, h.req.parts[2]),
     post |-> IF h.req.op = "LIST" THEN {}
              ELSE Lookup(ApplyEffect(st, h.cs.eff), h.req.parts[2])]

\* (mutant) the guard outlives the arm of the match that took it
GuardKept(task, holders) == holders

\* the guard goes out of scope where the arm of the match returns
GuardDropped(task, holders) == holders \ {task}

\* the critical section's removal or insertion, and the guard is dropped;
\* where the critical section panics the task unwinds: the guard is dropped
\* with the map as it was, and the handler is gone
Commit(c) ==
    /\ conn[c].pc = "crit"
    /\ store' = ApplyEffect(store, conn[c].cs.eff)
    /\ lockW' = GuardDropped(c, lockW)
    /\ lockR' = GuardDropped(c, lockR)
    /\ IF conn[c].cs.panic
       THEN /\ hist' = hist
            /\ conn' = [conn EXCEPT ![c] = Handler("panicked")]
       ELSE /\ hist' = Append(hist, Executed(c, conn[c], store))
            /\ conn' = [conn EXCEPT ![c] =
                        Logged([ProcessResume(conn[c], now) EXCEPT !.line = conn[c].line])]
    /\ UNCHANGED <<wire, sink, cli, build, now, nlines, inp, beats, peer, out, rx, sigPc, mainPc, sweep,
                   openAtShutdown>>

\* (mutant) a reply of several lines is written a line at a time
WriteReplyByLine(c) ==
    /\ conn[c].pc = "write"
    /\ LET resp == conn[c].resp
           first == CHOOSE i \in DOMAIN resp :
                        resp[i] = "\n" /\ \A j \in 1..(i - 1) : resp[j] # "\n"
       IN  \/ /\ out' = [out EXCEPT ![c] = Append(@, SubSeq(resp, 1, first))]
              /\ conn' = [conn EXCEPT ![c] =
                             IF first = Len(resp) THEN Handler("select")
                             ELSE [@ EXCEPT !.resp = SubSeq(resp, first + 1, Len(resp))]]
           \/ /\ peer[c] = "closed"
              /\ out' = out
              /\ conn' = [conn EXCEPT ![c] = Handler("closed")]
    /\ UNCHANGED <<wire, sink, cli, build, store, lockW, lockR, now, nlines, inp, beats, peer, rx, sigPc,
                   mainPc, sweep, hist, openAtShutdown>>

\* writer.write_all(response): on failure the handler returns
WriteReply(c) ==
    /\ conn[c].pc = "write"
    /\ \/ /\ out' = [out EXCEPT ![c] = Append(@, conn[c].resp)]
          /\ conn' = [conn EXCEPT ![c] = Handler("select")]
       \/ /\ peer[c] = "closed"
          /\ out' = out
          /\ conn' = [conn EXCEPT ![c] = Handler("closed")]
    /\ UNCHANGED <<wire, sink, cli, build, store, lockW, lockR, now, nlines, inp, beats, peer, rx, sigPc,
                   mainPc, sweep, hist, openAtShutdown>>

\* heartbeat.tick(): the select drops the read_line future of this turn with
\* the bytes it holds, and UPONG is written; on failure the handler returns
Heartbeat(c) ==
    /\ conn[c].pc = "select"
    /\ beats[c] < MaxBeats
    /\ beats' = [beats EXCEPT ![c] = @ + 1]
    /\ \/ /\ out' = [out EXCEPT ![c] = Append(@, UPONG)]
          /\ conn' = [conn EXCEPT ![c] = Handler("select")]
       \/ /\ peer[c] = "closed"
          /\ out' = out
          /\ conn' = [conn EXCEPT ![c] = Handler("closed")]
    /\ UNCHANGED <<wire, sink, cli, build, store, lockW, lockR, now, nlines, inp, peer, rx, sigPc, mainPc,
                   sweep, hist, openAtShutdown>>

\* the client closes or loses its end of the connection
ClientClose(c) ==
    /\ conn[c].pc \notin {"none", "closed", "dropped", "panicked"}
    /\ peer[c] = "open"
    /\ peer' = [peer EXCEPT ![c] = "closed"]
    /\ UNCHANGED <<wire, sink, cli, build, store, lockW, lockR, now, conn, nlines, inp, beats, out, rx,
                   sigPc, mainPc, sweep, hist, openAtShutdown>>

\* (mutant) the end of one client's stream takes the whole server down
ReadEndStopsServer(c) ==
    /\ conn[c].pc = "select"
    /\ peer[c] = "closed"
    /\ conn' = [conn EXCEPT ![c] = Handler("closed")]
    /\ mainPc' = "returned"
    /\ UNCHANGED <<wire, sink, cli, build, store, lockW, lockR, now, nlines, inp, beats, peer, out, rx,
                   sigPc, sweep, hist, openAtShutdown>>

\* reader.read_line yields Ok(0) or Err(_): the handler returns
ReadEnd(c) ==
    /\ conn[c].pc = "select"
    /\ peer[c] = "closed"
    /\ conn' = [conn EXCEPT ![c] = Handler("closed")]
    /\ UNCHANGED <<wire, sink, cli, build, store, lockW, lockR, now, nlines, inp, beats, peer, out, rx,
                   sigPc, mainPc, sweep, hist, openAtShutdown>>

\* (mutant) the handler writes TERM and goes back to its select loop
HandlerShutdownStays(c) ==
    /\ conn[c].pc = "select"
    /\ rx[c]
    /\ \/ out' = [out EXCEPT ![c] = Append(@, TERM)]
       \/ /\ peer[c] = "closed"
          /\ out' = out
    /\ conn' = [conn EXCEPT ![c] = Handler("select")]
    /\ rx' = [rx EXCEPT ![c] = FALSE]
    /\ UNCHANGED <<wire, sink, cli, build, store, lockW, lockR, now, nlines, inp, beats, peer, sigPc,
                   mainPc, sweep, hist, openAtShutdown>>

\* shutdown_rx.recv() in the handler's select: TERM is written, its failure
\* ignored, and the handler returns
HandlerShutdown(c) ==
    /\ conn[c].pc = "select"
    /\ rx[c]
    /\ \/ out' = [out EXCEPT ![c] = Append(@, TERM)]
       \/ /\ peer[c] = "closed"
          /\ out' = out
    /\ conn' = [conn EXCEPT ![c] = Handler("closed")]
    /\ rx' = [rx EXCEPT ![c] = FALSE]
    /\ UNCHANGED <<wire, sink, cli, build, store, lockW, lockR, now, nlines, inp, beats, peer, sigPc,
                   mainPc, sweep, hist, openAtShutdown>>

\* a handler that is live: spawned, and neither returned nor dropped
Open(c) == conn[c].pc \notin {"none", "closed", "dropped", "panicked"}

\* ctrl_c() completes and the watcher sends the broadcast: every receiver
\* subscribed at that moment gets the message
Signal ==
    /\ sigPc = "wait"
    /\ mainPc # "returned"
    /\ sigPc' = "sent"
    /\ rx' = [r \in Receivers |->
                 IF r = MainTask THEN TRUE
                 ELSE IF r = SweeperTask THEN sweep.pc # "done"
                 ELSE Open(r)]
    /\ openAtShutdown' = {c \in ConnIds : Open(c)}
    /\ UNCHANGED <<wire, sink, cli, build, store, lockW, lockR, now, conn, nlines, inp, beats, peer, out,
                   mainPc, sweep, hist>>

\* shutdown_rx.recv() in main's select: main goes on to log KVSERVERDOWN
MainShutdown ==
    /\ mainPc = "accept"
    /\ rx[MainTask]
    /\ mainPc' = "logdown"
    /\ rx' = [rx EXCEPT ![MainTask] = FALSE]
    /\ UNCHANGED <<wire, sink, cli, build, store, lockW, lockR, now, conn, nlines, inp, beats, peer, out,
                   sigPc, sweep, hist, openAtShutdown>>

\* the log call returns, main breaks out of its loop and returns: the
\* runtime of #[tokio::main] is shut down
MainReturn ==
    /\ mainPc = "logdown"
    /\ mainPc' = "returned"
    /\ UNCHANGED <<wire, sink, cli, build, store, lockW, lockR, now, conn, nlines, inp, beats, peer, out,
                   rx, sigPc, sweep, hist, openAtShutdown>>

\* a handler task is suspended: in its select, in send_log, or queued for a
\* lock it cannot get
Suspended(c) ==
    \/ conn[c].pc \in {"select", "logrecv", "logproc"}
    \/ conn[c].pc = "lock" /\ ~(IF conn[c].req.op = "LIST" THEN CanRead ELSE CanWrite)

\* the runtime, shut down, drops a spawned task where it is suspended
RuntimeDrop(c) ==
    /\ mainPc = "returned"
    /\ Suspended(c)
    /\ conn' = [conn EXCEPT ![c] = Handler("dropped")]
    /\ UNCHANGED <<wire, sink, cli, build, store, lockW, lockR, now, nlines, inp, beats, peer, out, rx,
                   sigPc, mainPc, sweep, hist, openAtShutdown>>

\* cleanup_interval.tick(), and the write lock is granted: now is read
SweepAcquire ==
    /\ sweep.pc = "idle"
    /\ CanWrite
    /\ lockW' = lockW \cup {SweeperTask}
    /\ sweep' = [pc |-> "crit", now |-> now]
    /\ UNCHANGED <<wire, sink, cli, build, store, lockR, now, conn, nlines, inp, beats, peer, out, rx,
                   sigPc, mainPc, hist, openAtShutdown>>

\* store_write.retain(..), and the guard is dropped
SweepRetain ==
    /\ sweep.pc = "crit"
    /\ store' = Retain(store, sweep.now)
    /\ lockW' = lockW \ {SweeperTask}
    /\ sweep' = [pc |-> "idle", now |-> 0]
    /\ UNCHANGED <<wire, sink, cli, build, lockR, now, conn, nlines, inp, beats, peer, out, rx, sigPc,
                   mainPc, hist, openAtShutdown>>

\* shutdown_rx.recv() in the cleanup task's select, or the runtime drops the
\* task there: the loop ends
SweepStop ==
    /\ sweep.pc = "idle"
    /\ rx[SweeperTask] \/ mainPc = "returned"
    /\ sweep' = [pc |-> "done", now |-> 0]
    /\ rx' = [rx EXCEPT ![SweeperTask] = FALSE]
    /\ UNCHANGED <<wire, sink, cli, build, store, lockW, lockR, now, conn, nlines, inp, beats, peer, out,
                   sigPc, mainPc, hist, openAtShutdown>>

\* a second passes
Tick ==
    /\ now < MaxTime
    /\ now' = now + 1
    /\ UNCHANGED <<wire, sink, cli, build, store, lockW, lockR, conn, nlines, inp, beats, peer, out, rx,
                   sigPc, mainPc, sweep, hist, openAtShutdown>>


(* --------------------------- the clients' lines ----------------------- *)

\* a command line as a client sends it: the words, one space between, newline
Line(words) == JoinWith(words, <<" ">>) \o NL

K == <<"k">>
A == <<"a">>
T1S == <<"1", "s">>
T2S == <<"2", "s">>

\* the lines of the clients of the full system
SysLines == {Line(<<W_INCR, K>>), Line(<<W_GET, K>>)}

\* the one line of each client of SpecIncr
IncrLines == {Line(<<W_INCR, K>>)}

\* the lines of the client of SpecStoreLaws: SET with and without TTL, a
\* text value and an integer literal written with a leading zero, GET, DEL
StoreLawLines ==
    {Line(<<W_SET, K, A>>), Line(<<W_SET, K, <<"0", "7">> >>),
     Line(<<W_SET, K, A, T1S>>), Line(<<W_GET, K>>), Line(<<W_DEL, K>>)}

\* the lines of the client of SpecIncrLaws
IncrLawLines ==
    {Line(<<W_SET, K, A>>), Line(<<W_SET, K, <<"7">> >>),
     Line(<<W_SET, K, A, T1S>>), Line(<<W_INCR, K>>), Line(<<W_INCR, K, T2S>>),
     Line(<<W_GET, K>>)}

\* a second key
J == <<"j">>

\* a command as a client writes it, and a batch of commands as a line
Cmd(words) == JoinWith(words, <<" ">>)
BatchLine(cmds) == BATCH_PREFIX \o JoinWith(cmds, <<";">>) \o NL

\* the lines of the batching client of SpecBatch: two sub-commands on two keys,
\* LIST as a sub-command, four sub-commands, a sub-command that fails before
\* one that does not and BATCH as a sub-command, a blank sub-command
BatchLines ==
    {BatchLine(<<Cmd(<<W_INCR, K>>), Cmd(<<W_INCR, J>>)>>),
     BatchLine(<<Cmd(<<W_LIST>>)>>),
     BatchLine(<<Cmd(<<W_INCR, K>>), Cmd(<<W_INCR, K>>), Cmd(<<W_INCR, K>>),
                 Cmd(<<W_INCR, K>>)>>),
     BatchLine(<<Cmd(<<W_GET>>), Cmd(<<W_INCR, K>>),
                 BATCH_PREFIX \o Cmd(<<W_GET, K>>)>>),
     BatchLine(<<Cmd(<<W_GET, J>>), <<" ">>, Cmd(<<W_DEL, K>>)>>)}

\* the one line of the other client of SpecBatch
OtherLines == {Line(<<W_SET, K, A>>)}

\* keys and values at the limit and one byte over it
AtLimit == [i \in 1..MaxTokenLen |-> "k"]
OverLimit == [i \in 1..(MaxTokenLen + 1) |-> "k"]

\* the lines of the client of SpecLimits
LimitLines ==
    {Line(<<W_GET, AtLimit>>), Line(<<W_GET, OverLimit>>),
     Line(<<W_SET, AtLimit, AtLimit>>), Line(<<W_SET, OverLimit, A>>),
     Line(<<W_SET, K, OverLimit>>),
     Line(<<W_INCR, AtLimit>>), Line(<<W_INCR, OverLimit>>),
     Line(<<W_DEL, AtLimit>>), Line(<<W_DEL, OverLimit>>),
     BatchLine(<<Cmd(<<W_INCR, K>>), Cmd(<<W_SET, OverLimit, A>>)>>)}

\* the lines of the client of SpecForms: TTL tokens outside and inside the
\* grammar, and every command word with too few or too many arguments
FormLines ==
    {Line(<<W_SET, K, A, T1S>>),
     Line(<<W_SET, K, A, <<"1", "s", "s">> >>),
     Line(<<W_SET, K, A, <<"+", "1", "s">> >>),
     Line(<<W_SET, K, A, <<"1", "d">> >>),
     Line(<<W_INCR, K, <<"1", "d">> >>),
     Line(<<W_PING, K>>),
     Line(<<W_GET>>), Line(<<W_GET, K, K>>),
     Line(<<W_SET, K>>), Line(<<W_SET, K, A, T1S, K>>),
     Line(<<W_INCR>>), Line(<<W_INCR, K, T1S, K>>),
     Line(<<W_DEL>>), Line(<<W_DEL, K, K>>),
     Line(<<W_LIST, K>>)}

\* the lines of the client of SpecOrder: an empty line and a blank one, a
\* command that fails before the store, commands on the store, a batch
OrderLines ==
    {NL, <<" ", " ">> \o NL, Line(<<W_GET>>), Line(<<W_GET, K>>),
     Line(<<W_SET, K, A>>),
     BatchLine(<<Cmd(<<W_INCR, K>>), Cmd(<<W_GET, K>>)>>)}

\* the lines of the first client of SpecList: entries with and without an
\* expiration, text and integer, on two keys, and LIST
ListLawLines ==
    {Line(<<W_SET, K, A, T1S>>), Line(<<W_INCR, J>>), Line(<<W_LIST>>)}

\* the one line of its second client
ListOtherLines == {Line(<<W_LIST>>), Line(<<W_SET, J, A>>)}

\* the lines of the client of SpecLog
LogLines ==
    {Line(<<W_SET, K, A>>), Line(<<W_INCR, K>>), Line(<<W_GET, K>>),
     Line(<<W_DEL, K>>), Line(<<W_GET>>)}

(* --------------------------- the client library ----------------------- *)

\* str::contains
Contains(s, p) ==
    \E i \in 1..(Len(s) - Len(p) + 1) : SubSeq(s, i, i + Len(p) - 1) = p

\* KvClient::get, from the reply line send_command has read: Ok(None),
\* Err(response) or Ok(Some(response))
KvClientGet(reply) ==
    LET response == Trim(reply)
    IN  IF StartsWith(response, <<"E", "R", "R", "O", "R">>)
        THEN IF Contains(response, <<"k","e","y"," ","n","o","t"," ","f","o","u","n","d">>)
             THEN [kind |-> "None", value |-> <<>>]
             ELSE [kind |-> "Err", value |-> response]
        ELSE [kind |-> "Some", value |-> response]

\* the bytes the server has written on connection c, as the client's
\* BufReader sees them: the complete lines, without their newlines
StreamLines(c) ==
    LET RECURSIVE Concat(_)
        Concat(chunks) ==
            IF chunks = <<>> THEN <<>> ELSE Head(chunks) \o Concat(Tail(chunks))
    IN  SubSeq(Split(Concat(out[c]), "\n"), 1, Len(Split(Concat(out[c]), "\n")) - 1)

\* (mutant) send_command returns every line but TERM
ClientReadLineNoSkip(c) ==
    /\ cli[c].pos < Len(StreamLines(c))
    /\ LET resp == Trim(StreamLines(c)[cli[c].pos + 1])
       IN  cli' = [cli EXCEPT ![c].pos = @ + 1,
                              ![c].got = IF resp = Trim(TERM)
                                         THEN Append(@, [kind |-> "Err", value |-> resp])
                                         ELSE Append(@, [kind |-> "Ok", value |-> resp])]
    /\ UNCHANGED <<wire, sink, build, store, lockW, lockR, now, conn, nlines, inp, beats, peer,
                   out, rx, sigPc, mainPc, sweep, hist, openAtShutdown>>

\* KvClient::send_command, one turn of its loop: read_line yields the next
\* line of the server; UPONG is skipped, TERM is an error, any other line
\* is the response (got keeps what the calls returned, Ok or Err)
ClientReadLine(c) ==
    /\ cli[c].pos < Len(StreamLines(c))
    /\ LET resp == Trim(StreamLines(c)[cli[c].pos + 1])
       IN  cli' = [cli EXCEPT ![c].pos = @ + 1,
                              ![c].got = IF resp = Trim(UPONG) THEN @
                                         ELSE IF resp = Trim(TERM)
                                              THEN Append(@, [kind |-> "Err", value |-> resp])
                                         ELSE Append(@, [kind |-> "Ok", value |-> resp])]
    /\ UNCHANGED <<wire, sink, build, store, lockW, lockR, now, conn, nlines, inp, beats, peer,
                   out, rx, sigPc, mainPc, sweep, hist, openAtShutdown>>

\* the lines of the client of SpecClient: a value that reads UPONG is set
\* and read back
ClientLines ==
    {Line(<<W_SET, K, <<"U", "P", "O", "N", "G">> >>), Line(<<W_GET, K>>)}

\* lines of any content: well-formed, malformed, and one whose bytes are
\* not UTF-8; values that are integer literals (the least integer, one with
\* a sign and a leading zero) and values that are nearly so (the digits of
\* 2^63, digits followed by a letter)
ByteLines ==
    {Line(<<W_SET, K, A>>), Line(<<W_GET, K>>), Line(<<W_GET>>), Line(<<W_INCR, K>>),
     Line(<<W_GET, <<InvalidByte>> >>),
     Line(<<W_SET, K, I64MinMagnitude>>), Line(<<W_SET, K, <<"-">> \o I64MinMagnitude>>),
     Line(<<W_SET, K, <<"+", "0", "7">> >>), Line(<<W_SET, K, <<"7", "a">> >>)}

\* lines about the largest integers: i64::MAX and its predecessor are set,
\* incremented and read
WideLines ==
    {Line(<<W_SET, K, I64Max>>), Line(<<W_SET, K, BigSub(I64Max, <<"1">>)>>),
     Line(<<W_INCR, K>>), Line(<<W_GET, K>>)}

\* TTLs of large numbers: u64::MAX seconds, and the least numbers of minutes
\* (307445734561825861) and of hours (5124095576030432) whose seconds are
\* beyond u64::MAX; a TTL of 2 s besides
TtlLines ==
    {Line(<<W_SET, K, A, <<"2", "s">> >>),
     Line(<<W_SET, K, A, U64Max \o <<"s">> >>),
     Line(<<W_SET, K, A, <<"3","0","7","4","4","5","7","3","4","5","6","1","8","2","5","8","6","1",
                         "m", "i", "n">> >>),
     Line(<<W_INCR, J, <<"5","1","2","4","0","9","5","5","7","6","0","3","0","4","3","2", "h">> >>),
     Line(<<W_GET, K>>)}

(* ---------------------------- specifications -------------------------- *)

\* the full system: NConns clients, heartbeats, disconnects, the sweeper
\* and the shutdown (no line of SysLines has a TTL: the clock stands still)
Next ==
    \/ \E c \in 1..NConns : Accept(c)
    \/ \E c \in 1..NConns : ReadLine(c, SysLines, MaxLines)
    \/ \E c \in 1..NConns : Acquire(c)
    \/ \E c \in 1..NConns : Commit(c)
    \/ \E c \in 1..NConns : WriteReply(c)
    \/ \E c \in 1..NConns : Heartbeat(c)
    \/ \E c \in 1..NConns : ClientClose(c)
    \/ \E c \in 1..NConns : ReadEnd(c)
    \/ \E c \in 1..NConns : HandlerShutdown(c)
    \/ \E c \in 1..NConns : RuntimeDrop(c)
    \/ Signal
    \/ MainShutdown
    \/ MainReturn
    \/ SweepAcquire
    \/ SweepRetain
    \/ SweepStop

Spec == Init /\ [][Next]_vars

\* NIncr clients, each sending one INCR k, with the sweeper and the clock
NextIncr ==
    \/ \E c \in 1..NIncr : Accept(c)
    \/ \E c \in 1..NIncr : ReadLine(c, IncrLines, 1)
    \/ \E c \in 1..NIncr : Acquire(c)
    \/ \E c \in 1..NIncr : Commit(c)
    \/ \E c \in 1..NIncr : WriteReply(c)
    \/ SweepAcquire
    \/ SweepRetain

SpecIncr == Init /\ [][NextIncr]_vars

\* one client sending up to MaxLawLines of StoreLawLines, the sweeper, the clock
NextStoreLaws ==
    \/ Accept(1)
    \/ ReadLine(1, StoreLawLines, MaxLawLines)
    \/ Acquire(1)
    \/ Commit(1)
    \/ WriteReply(1)
    \/ SweepAcquire
    \/ SweepRetain
    \/ Tick

SpecStoreLaws == Init /\ [][NextStoreLaws]_vars

\* one client sending up to MaxLawLines of IncrLawLines, the sweeper, the clock
NextIncrLaws ==
    \/ Accept(1)
    \/ ReadLine(1, IncrLawLines, MaxLawLines)
    \/ Acquire(1)
    \/ Commit(1)
    \/ WriteReply(1)
    \/ SweepAcquire
    \/ SweepRetain
    \/ Tick

SpecIncrLaws == Init /\ [][NextIncrLaws]_vars

\* a client sending up to MaxBatchLines of BatchLines, a second sending the
\* one line of OtherLines, and the sweeper
NextBatch ==
    \/ \E c \in 1..2 : Accept(c)
    \/ ReadLine(1, BatchLines, MaxBatchLines)
    \/ ReadLine(2, OtherLines, 1)
    \/ \E c \in 1..2 : Acquire(c)
    \/ \E c \in 1..2 : Commit(c)
    \/ \E c \in 1..2 : WriteReply(c)
    \/ SweepAcquire
    \/ SweepRetain

SpecBatch == Init /\ [][NextBatch]_vars

\* one client sending up to MaxLawLines of LimitLines
NextLimits ==
    \/ Accept(1)
    \/ ReadLine(1, LimitLines, MaxLawLines)
    \/ Acquire(1)
    \/ Commit(1)
    \/ WriteReply(1)

SpecLimits == Init /\ [][NextLimits]_vars

\* one client sending up to MaxLawLines of FormLines, and the clock
NextForms ==
    \/ Accept(1)
    \/ ReadLine(1, FormLines, MaxLawLines)
    \/ Acquire(1)
    \/ Commit(1)
    \/ WriteReply(1)
    \/ Tick

SpecForms == Init /\ [][NextForms]_vars

\* one client sending up to MaxLawLines of OrderLines
NextOrder ==
    \/ Accept(1)
    \/ ReadLine(1, OrderLines, MaxLawLines)
    \/ Acquire(1)
    \/ Commit(1)
    \/ WriteReply(1)

SpecOrder == Init /\ [][NextOrder]_vars

\* a client sending up to MaxLawLines of ListLawLines, a second sending one
\* line of ListOtherLines, and the sweeper (LIST does not read the clock)
NextList ==
    \/ \E c \in 1..2 : Accept(c)
    \/ ReadLine(1, ListLawLines, MaxLawLines)
    \/ ReadLine(2, ListOtherLines, 1)
    \/ \E c \in 1..2 : Acquire(c)
    \/ \E c \in 1..2 : Commit(c)
    \/ \E c \in 1..2 : WriteReply(c)
    \/ SweepAcquire
    \/ SweepRetain

SpecList == Init /\ [][NextList]_vars

\* two clients sending up to MaxLines of SysLines, with heartbeats,
\* disconnects and the sweeper, and no shutdown
NextFaults ==
    \/ \E c \in 1..2 : Accept(c)
    \/ \E c \in 1..2 : ReadLine(c, SysLines, MaxLines)
    \/ \E c \in 1..2 : Acquire(c)
    \/ \E c \in 1..2 : Commit(c)
    \/ \E c \in 1..2 : WriteReply(c)
    \/ \E c \in 1..2 : Heartbeat(c)
    \/ \E c \in 1..2 : ClientClose(c)
    \/ \E c \in 1..2 : ReadEnd(c)
    \/ SweepAcquire
    \/ SweepRetain

SpecFaults == Init /\ [][NextFaults]_vars

\* one client sending up to MaxLawLines of LogLines, under every
\* configuration of the logger
NextLog ==
    \/ Accept(1)
    \/ ReadLine(1, LogLines, MaxLawLines)
    \/ LogRecv(1)
    \/ Acquire(1)
    \/ Commit(1)
    \/ LogProc(1)
    \/ WriteReply(1)

SpecLog == InitLog /\ [][NextLog]_vars

\* one client sending up to MaxLawLines of ListLawLines under every
\* configuration of the logger, with heartbeats, the shutdown and the sweeper:
\* every point at which a task waits
NextWait ==
    \/ Accept(1)
    \/ ReadLine(1, ListLawLines, MaxLawLines)
    \/ LogRecv(1)
    \/ Acquire(1)
    \/ Commit(1)
    \/ LogProc(1)
    \/ WriteReply(1)
    \/ Heartbeat(1)
    \/ HandlerShutdown(1)
    \/ Signal
    \/ SweepAcquire
    \/ SweepRetain

SpecWait == InitLog /\ [][NextWait]_vars

\* one client whose lines, up to MaxLawLines of SysLines, reach the server in
\* two fragments each, with heartbeats
NextFrag ==
    \/ Accept(1)
    \/ ReadFragment(1, SysLines, MaxLawLines)
    \/ ReadLineEnd(1)
    \/ Acquire(1)
    \/ Commit(1)
    \/ WriteReply(1)
    \/ Heartbeat(1)

SpecFrag == Init /\ [][NextFrag]_vars

\* one client making up to MaxLawLines calls of KvClient, one after the
\* other: a call writes its line (of ListLawLines) when the call before has
\* returned, and send_command reads the stream until it has a response
NextCalls ==
    \/ Accept(1)
    \/ (Len(cli[1].got) = nlines[1] /\ ReadLine(1, ListLawLines, MaxLawLines))
    \/ Acquire(1)
    \/ Commit(1)
    \/ WriteReply(1)
    \/ (Len(cli[1].got) < nlines[1] /\ ClientReadLine(1))

SpecCalls == Init /\ [][NextCalls]_vars

\* the full system with a listener whose accept can fail: NConns clients,
\* each sending up to MaxLines of SysLines, the sweeper and the shutdown
NextAccept ==
    \/ \E c \in 1..NConns : Accept(c)
    \/ AcceptFails
    \/ \E c \in 1..NConns : ReadLine(c, SysLines, MaxLines)
    \/ \E c \in 1..NConns : Acquire(c)
    \/ \E c \in 1..NConns : Commit(c)
    \/ \E c \in 1..NConns : WriteReply(c)
    \/ \E c \in 1..NConns : HandlerShutdown(c)
    \/ \E c \in 1..NConns : RuntimeDrop(c)
    \/ Signal
    \/ MainShutdown
    \/ MainReturn
    \/ SweepAcquire
    \/ SweepRetain
    \/ SweepStop

SpecAccept == Init /\ [][NextAccept]_vars

\* one client sending up to MaxLawLines of ClientLines and reading what the
\* server writes, with heartbeats and the shutdown
NextClient ==
    \/ Accept(1)
    \/ ReadLine(1, ClientLines, MaxLawLines)
    \/ Acquire(1)
    \/ Commit(1)
    \/ WriteReply(1)
    \/ Heartbeat(1)
    \/ Signal
    \/ HandlerShutdown(1)
    \/ ClientReadLine(1)

SpecClient == Init /\ [][NextClient]_vars

\* one client sending up to MaxLawLines of ByteLines; it neither closes nor
\* is the server shut down
NextBytes ==
    \/ Accept(1)
    \/ ReadLine(1, ByteLines, MaxLawLines)
    \/ Acquire(1)
    \/ Commit(1)
    \/ WriteReply(1)

SpecBytes == Init /\ [][NextBytes]_vars

\* one client sending up to MaxLawLines of WideLines and TtlLines to a server
\* of either build, while the clock runs
NextWidth ==
    \/ Accept(1)
    \/ ReadLine(1, WideLines \cup TtlLines, MaxLawLines)
    \/ Acquire(1)
    \/ Commit(1)
    \/ WriteReply(1)
    \/ Tick

SpecWidth == InitBuilds /\ [][NextWidth]_vars


(* ------------------------------- claims ------------------------------- *)

\* the history's entries are store commands on a key: their word, key, TTL
IsCmd(e, word) == e.parts[1] = word
KeyOf(e) == IF Len(e.parts) >= 2 THEN e.parts[2] ELSE <<>>
HasTtl(e) == Len(e.parts) = (IF IsCmd(e, W_SET) THEN 4 ELSE 3)
TtlOf(e) == parse_expiration(e.parts[Len(e.parts)])

\* the entry the command found is in the map and not expired
LiveBefore(e) == \E stored \in e.pre : ~Expired(stored, e.t)
\* the entry the command found is in the map but has expired
LapsedBefore(e) == \E stored \in e.pre : Expired(stored, e.t)

\* hist[j] is a GET of the key of hist[i], and every store command on that
\* key between the two is a GET
OnlyGetsUpTo(i, j) ==
    /\ i < j
    /\ \A m \in (i + 1)..j :
          KeyOf(hist[m]) = KeyOf(hist[i]) => IsCmd(hist[m], W_GET)
    /\ KeyOf(hist[j]) = KeyOf(hist[i])

\* the chunks written on connection c hold a TERM line
TermWritten(c) == \E n \in DOMAIN out[c] : out[c][n] = TERM

\* C1: once the shutdown broadcast is sent, every connection whose handler
\* was open at that moment gets a TERM line: a handler that was open then,
\* whose client is still connected and whose task has ended, has written TERM.
C1_TermToEveryOpenConnection ==
    \A c \in openAtShutdown :
        (conn[c].pc \in {"closed", "dropped"} /\ peer[c] = "open") => TermWritten(c)

\* every client of SpecIncr has sent its INCR and has its reply
IncrAllReplied ==
    \A c \in 1..NIncr : nlines[c] = 1 /\ conn[c].pc = "select" /\ Len(out[c]) = 1

\* C2: N connections each issue one INCR k on an absent key: the N replies
\* are the values 1..N, each once, and the stored value at the end is Integer(N).
C2_ConcurrentIncrLosesNoUpdate ==
    /\ \A c \in 1..NIncr : Len(out[c]) <= 1
    /\ \A c, d \in 1..NIncr :
          (c # d /\ out[c] # <<>> /\ out[d] # <<>>) => out[c][1] # out[d][1]
    /\ IncrAllReplied =>
          /\ {out[c][1] : c \in 1..NIncr} = {FormatInt(n) \o NL : n \in 1..NIncr}
          /\ Lookup(store, K) = {StoredValue(IntV(NIncr), {})}

\* C2 witness: all N increments were executed and answered, their critical
\* sections in another order than that of the connections
C2_Witness ==
    /\ IncrAllReplied
    /\ Len(hist) = NIncr
    /\ \E i \in DOMAIN hist : i > 1 /\ hist[i].c < hist[1].c

\* C3: after SET k v has replied OK, every GET k replies exactly v, the
\* characters that were sent, until k is deleted, overwritten or its TTL elapses.
C3_GetReturnsWhatWasSet ==
    \A i, j \in DOMAIN hist :
        ( /\ IsCmd(hist[i], W_SET)
          /\ hist[i].reply = OK
          /\ OnlyGetsUpTo(i, j)
          /\ \A stored \in hist[i].post : ~Expired(stored, hist[j].t) )
        => hist[j].reply = hist[i].parts[3] \o NL

\* C4: after SET k v <n>s at time t, a GET k before t+n replies v, and the
\* first GET k strictly after t+n replies ERROR key not found, whatever
\* sweeper passes ran in between.
C4_TtlLaw ==
    \A i, j \in DOMAIN hist :
        ( /\ IsCmd(hist[i], W_SET)
          /\ HasTtl(hist[i])
          /\ OnlyGetsUpTo(i, j) )
        => \A stored \in hist[i].post : \A exp \in stored.expires_at :
              /\ hist[j].t < exp => hist[j].reply = hist[i].parts[3] \o NL
              /\ ( /\ hist[j].t > exp
                   /\ \A m \in (i + 1)..(j - 1) : hist[m].t <= exp )
                 => hist[j].reply = ERR_KEY_NOT_FOUND

\* C5: INCR k on an absent key (never set, deleted or lapsed) replies 1, and
\* with no other command on k in between the next INCR k replies 2 and the
\* third replies 3.
C5_IncrCountsFromOne ==
    \A i \in DOMAIN hist :
        (IsCmd(hist[i], W_INCR) /\ ~HasTtl(hist[i]) /\ ~LiveBefore(hist[i]))
        => /\ hist[i].reply = FormatInt(1) \o NL
           /\ \A n \in 1..2 :
                 ( /\ i + n \in DOMAIN hist
                   /\ \A m \in (i + 1)..(i + n) :
                         /\ IsCmd(hist[m], W_INCR)
                         /\ ~HasTtl(hist[m])
                         /\ KeyOf(hist[m]) = KeyOf(hist[i]) )
                 => hist[i + n].reply = FormatInt(1 + n) \o NL

\* C6: INCR k [ttl] on an entry that is in the map but expired behaves as on
\* an absent key: it stores Integer(1) with expiration now+ttl when a TTL is
\* given and none otherwise, and a GET k right after replies 1.
C6_IncrOnLapsedEntry ==
    \A i \in DOMAIN hist :
        (IsCmd(hist[i], W_INCR) /\ LapsedBefore(hist[i]))
        => /\ hist[i].post =
                 {StoredValue(IntV(1), IF HasTtl(hist[i])
                                       THEN {hist[i].t + d : d \in TtlOf(hist[i])}
                                       ELSE {})}
           /\ ( /\ i + 1 \in DOMAIN hist
                /\ IsCmd(hist[i + 1], W_GET)
                /\ KeyOf(hist[i + 1]) = KeyOf(hist[i])
                /\ hist[i + 1].t = hist[i].t )
              => hist[i + 1].reply = FormatInt(1) \o NL

\* hist[i] is an INCR with TTL that created its key (the key had no entry),
\* hist[j] is a later INCR without TTL on that key issued before the TTL is
\* over, and no SET or DEL of the key lies between the two
IncrAfterCreatingIncr(i, j) ==
    /\ i < j
    /\ IsCmd(hist[i], W_INCR) /\ HasTtl(hist[i]) /\ TtlOf(hist[i]) # {}
    /\ hist[i].pre = {}
    /\ IsCmd(hist[j], W_INCR) /\ ~HasTtl(hist[j])
    /\ KeyOf(hist[j]) = KeyOf(hist[i])
    /\ \A d \in TtlOf(hist[i]) : hist[j].t < hist[i].t + d
    /\ \A m \in (i + 1)..(j - 1) :
          KeyOf(hist[m]) = KeyOf(hist[i]) => IsCmd(hist[m], W_INCR) \/ IsCmd(hist[m], W_GET)

Incremented(stored) == IF stored.value.tag = "Int" THEN stored.value.i + 1 ELSE 1

\* C8: INCR k <ttl> on a key that is present and unexpired leaves the entry's
\* expiration exactly as it was, also when the entry had none, and replies
\* the incremented value.
C8_IncrTtlIgnoredOnLiveKey ==
    \A i \in DOMAIN hist :
        (IsCmd(hist[i], W_INCR) /\ HasTtl(hist[i]) /\ LiveBefore(hist[i]))
        => \A stored \in hist[i].pre :
              /\ hist[i].post = {StoredValue(IntV(Incremented(stored)), stored.expires_at)}
              /\ hist[i].reply = FormatInt(Incremented(stored)) \o NL

\* C8 witness: INCR k 2s was executed on a live entry that had no expiration
C8_Witness ==
    \E i \in DOMAIN hist :
        /\ IsCmd(hist[i], W_INCR) /\ HasTtl(hist[i]) /\ LiveBefore(hist[i])
        /\ \A stored \in hist[i].pre : stored.expires_at = {}

\* C9: INCR k on a present, unexpired key holding a Text value replies 1 and
\* stores Integer(1), whatever the text, and keeps the entry's expiration.
C9_IncrOnTextResetsToOne ==
    \A i \in DOMAIN hist :
        ( /\ IsCmd(hist[i], W_INCR)
          /\ LiveBefore(hist[i])
          /\ \A stored \in hist[i].pre : stored.value.tag = "Str" )
        => \A stored \in hist[i].pre :
              /\ hist[i].reply = FormatInt(1) \o NL
              /\ hist[i].post = {StoredValue(IntV(1), stored.expires_at)}

\* C9 witness: INCR k was executed on a live Text entry that has an expiration
C9_Witness ==
    \E i \in DOMAIN hist :
        /\ IsCmd(hist[i], W_INCR) /\ LiveBefore(hist[i])
        /\ \A stored \in hist[i].pre :
              stored.value.tag = "Str" /\ stored.expires_at # {}

\* C10: after a SET k v without TTL the first DEL k replies OK and removes
\* k, and a second DEL k right after replies ERROR key not found.
C10_SecondDelNotFound ==
    \A i \in DOMAIN hist :
        ( /\ IsCmd(hist[i], W_SET) /\ ~HasTtl(hist[i])
          /\ i + 1 \in DOMAIN hist
          /\ IsCmd(hist[i + 1], W_DEL) /\ KeyOf(hist[i + 1]) = KeyOf(hist[i]) )
        => /\ hist[i + 1].reply = OK
           /\ hist[i + 1].post = {}
           /\ ( /\ i + 2 \in DOMAIN hist
                /\ IsCmd(hist[i + 2], W_DEL) /\ KeyOf(hist[i + 2]) = KeyOf(hist[i]) )
              => hist[i + 2].reply = ERR_KEY_NOT_FOUND

\* the positions in the history of the commands of the line c is processing
LineIdx(c) == {i \in DOMAIN hist : hist[i].c = c /\ hist[i].n = nlines[c]}

\* C11: GET k on a key that has no entry in the store replies ERROR key not
\* found, the reply for an entry found expired, and KvClient::get returns None.
C11_GetAbsentKeyNotFound ==
    \A i \in DOMAIN hist :
        (IsCmd(hist[i], W_GET) /\ hist[i].pre = {}) =>
            /\ hist[i].reply = ERR_KEY_NOT_FOUND
            /\ KvClientGet(hist[i].reply).kind = "None"

\* a line is a batch; the pieces between its semicolons; its sub-commands,
\* the pieces that are not blank
IsBatch(line) == StartsWith(line, BATCH_PREFIX)
Pieces(line) == Split(SubSeq(line, Len(BATCH_PREFIX) + 1, Len(line)), ";")
SubCommands(line) == SelectSeq(Pieces(line), LAMBDA piece : Trim(piece) # <<>>)

\* C12: a BATCH line with more than 3 sub-commands replies ERROR too many
\* commands and executes none of them: it goes to its reply without the
\* store, and the history has no command of such a line.
C12_TooManyCommandsRunsNone ==
    /\ \A c \in ConnIds :
          (IsBatch(conn[c].line) /\ Len(SubCommands(conn[c].line)) > MaxBatch) =>
              /\ conn[c].pc = "write"
              /\ conn[c].resp = ERR_TOO_MANY_COMMANDS
    /\ \A i \in DOMAIN hist :
          ~(IsBatch(hist[i].line) /\ Len(SubCommands(hist[i].line)) > MaxBatch)

\* C12 witness: a batch of more than 3 sub-commands has its reply ready, on
\* a store that has entries
C12_Witness ==
    \E c \in ConnIds :
        /\ conn[c].pc = "write"
        /\ IsBatch(conn[c].line)
        /\ Len(SubCommands(conn[c].line)) > MaxBatch
        /\ store # EmptyStore

\* the commands of the history at the positions idx, in the history's order
RECURSIVE EntriesAt(_)
EntriesAt(idx) ==
    IF idx = {} THEN <<>>
    ELSE LET last == CHOOSE i \in idx : \A j \in idx : j <= i
         IN  Append(EntriesAt(idx \ {last}), hist[last])

\* the results the sub-commands subs have one by one, in their order: the
\* reply of a sub-command that returns without the store, and for one that
\* goes to the store the reply of its critical section, which the history
\* has in es; ok tells that es has these critical sections and no other
RECURSIVE BatchExpected(_, _)
BatchExpected(subs, es) ==
    IF subs = <<>> THEN [ok |-> es = <<>>, results |-> <<>>]
    ELSE LET parts == SplitWhitespace(Head(subs))
             v     == Validate(parts, 0)
         IN  IF v.kind = "done"
             THEN LET r == BatchExpected(Tail(subs), es)
                  IN  [ok |-> r.ok, results |-> <<TrimEnd(v.reply)>> \o r.results]
             ELSE IF es = <<>> THEN [ok |-> FALSE, results |-> <<>>]
                  ELSE LET r == BatchExpected(Tail(subs), Tail(es))
                       IN  [ok |-> r.ok /\ Head(es).parts = parts,
                            results |-> <<TrimEnd(Head(es).reply)>> \o r.results]

C14_BatchReplyIsOneLine ==
    \A c \in ConnIds :
        (conn[c].pc = "write" /\ IsBatch(conn[c].line)) =>
            \A i \in 1..(Len(conn[c].resp) - 1) : conn[c].resp[i] # "\n"

\* C15: a batch is not one critical section: a handler holds a guard of the
\* store lock exactly while it is in the critical section of one command, so
\* between two sub-commands of its batch it holds none.
C15_LockPerSubCommand ==
    \A c \in ConnIds : (c \in lockW \cup lockR) <=> conn[c].pc = "crit"

\* C15 witness: a command of another connection changed the store between
\* the critical sections of two sub-commands of one batch
C15_Witness ==
    \E i, j, k \in DOMAIN hist :
        /\ i < j /\ j < k
        /\ IsBatch(hist[i].line)
        /\ hist[k].c = hist[i].c /\ hist[k].n = hist[i].n
        /\ hist[j].c # hist[i].c
        /\ hist[j].post # hist[j].pre

\* the words of the line handler c is processing
PartsOf(c) == SplitWhitespace(conn[c].line)

\* the commands of the line handler c is processing left their key as it was
LineLeftStore(c) == \A i \in LineIdx(c) : hist[i].post = hist[i].pre

\* a line of GET, SET, INCR or DEL in its form, and whether its key, or the
\* value of SET, has more than 100 bytes
HasKeyForm(parts) ==
    /\ parts # <<>>
    /\ \/ parts[1] \in {W_GET, W_DEL} /\ Len(parts) = 2
       \/ parts[1] = W_INCR /\ Len(parts) \in {2, 3}
       \/ parts[1] = W_SET /\ Len(parts) \in {3, 4}
OverLong(parts) ==
    Len(parts[2]) >= 101 \/ (parts[1] = W_SET /\ Len(parts[3]) >= 101)

\* C16: for GET, SET, INCR and DEL a key of 101 bytes or more is rejected
\* with ERROR invalid length and a key of at most 100 bytes is not, and for
\* SET the same holds of the value; a rejected command never reaches the
\* store: no critical section has an over-long key or value.
C16_LengthLimit ==
    /\ \A c \in ConnIds :
          (conn[c].pc \in {"lock", "crit", "write"} /\ HasKeyForm(PartsOf(c))) =>
              IF OverLong(PartsOf(c))
              THEN /\ conn[c].pc = "write"
                   /\ conn[c].resp = ERR_INVALID_LENGTH
                   /\ LineIdx(c) = {}
              ELSE ~(conn[c].pc = "write" /\ conn[c].resp = ERR_INVALID_LENGTH)
    /\ \A i \in DOMAIN hist : ~OverLong(hist[i].parts)

\* C16 witness: a SET with a key and a value of 100 bytes was executed, and
\* a command with a key of 101 bytes has its reply ready
C16_Witness ==
    /\ \E i \in DOMAIN hist :
          /\ IsCmd(hist[i], W_SET)
          /\ Len(hist[i].parts[2]) = 100 /\ Len(hist[i].parts[3]) = 100
          /\ hist[i].post # {}
    /\ \E c \in ConnIds :
          /\ conn[c].pc = "write"
          /\ HasKeyForm(PartsOf(c))
          /\ Len(PartsOf(c)[2]) = 101

\* a TTL token of the grammar: decimal digits, then one of s, min, h
TtlGrammar(token) ==
    \E suffix \in {<<"s">>, <<"m", "i", "n">>, <<"h">>} :
        /\ EndsWith(token, suffix)
        /\ AllDigits(SubSeq(token, 1, Len(token) - Len(suffix)))

\* C17: for SET and for INCR, whatever the state of the key, a TTL token
\* that is not decimal digits followed by exactly one of s, min, h makes the
\* reply ERROR invalid expiration and leaves the store unchanged.
C17_InvalidTtlRejected ==
    \A c \in ConnIds :
        ( /\ conn[c].pc = "write"
          /\ HasKeyForm(PartsOf(c))
          /\ \/ PartsOf(c)[1] = W_SET /\ Len(PartsOf(c)) = 4
             \/ PartsOf(c)[1] = W_INCR /\ Len(PartsOf(c)) = 3
          /\ ~TtlGrammar(PartsOf(c)[Len(PartsOf(c))]) )
        => /\ conn[c].resp = ERR_INVALID_EXPIRATION
           /\ LineLeftStore(c)

\* the number of words of a line is that of the form of its command
ArgsInForm(parts) ==
    CASE parts[1] \in {W_PING, W_LIST} -> Len(parts) = 1
      [] parts[1] \in {W_GET, W_DEL} -> Len(parts) = 2
      [] parts[1] = W_SET -> Len(parts) \in {3, 4}
      [] parts[1] = W_INCR -> Len(parts) \in {2, 3}

\* C18: for every command word (PING, GET, SET, INCR, DEL, LIST) a line with
\* a number of arguments outside the command's form replies ERROR invalid
\* arguments and leaves the store unchanged.
C18_WrongArgumentCount ==
    \A c \in ConnIds :
        ( /\ conn[c].pc = "write"
          /\ PartsOf(c) # <<>>
          /\ PartsOf(c)[1] \in {W_PING, W_GET, W_SET, W_INCR, W_DEL, W_LIST}
          /\ ~ArgsInForm(PartsOf(c)) )
        => /\ conn[c].resp = ERR_INVALID_ARGUMENTS
           /\ LineLeftStore(c)

\* C19: after the shutdown broadcast has been sent the accept loop accepts
\* no further connection and spawns no further handler: every handler that
\* is live then was live when the broadcast was sent.
C19_NoAcceptAfterShutdown ==
    sigPc = "sent" => \A c \in ConnIds : Open(c) => c \in openAtShutdown

\* C20: a command line a handler has read is executed to the end and its
\* reply written before the connection is closed by the shutdown: a handler
\* task with a line in progress is never dropped.
C20_ReadCommandAnswered ==
    [][\A c \in ConnIds : conn[c].line # <<>> => conn'[c].pc # "dropped"]_vars

\* the positions in the history of the commands of the n-th line of c
IdxOf(c, n) == {i \in DOMAIN hist : hist[i].c = c /\ hist[i].n = n}

\* the reply the n-th line of c has by process_command, given its commands
\* in the history
ReplyOf(c, n) ==
    LET line == TrimEnd(inp[c][n])
    IN  IF IsBatch(line)
        THEN IF Len(Pieces(line)) > MaxBatch THEN ERR_TOO_MANY_COMMANDS
             ELSE JoinWith(BatchExpected(SubCommands(line), EntriesAt(IdxOf(c, n))).results,
                           <<";">>) \o NL
        ELSE LET v == Validate(SplitWhitespace(line), 0)
             IN  IF v.kind = "done" THEN v.reply
                 ELSE IF IdxOf(c, n) = {} THEN <<>>
                 ELSE hist[CHOOSE i \in IdxOf(c, n) : TRUE].reply

\* the lines of c that are not empty after trimming and whose processing is
\* over, by their numbers in the order of arrival
RECURSIVE AnsweredLines(_, _)
AnsweredLines(c, n) ==
    IF n = 0 THEN <<>>
    ELSE IF TrimEnd(inp[c][n]) = <<>> \/ (n = Len(inp[c]) /\ conn[c].pc # "select")
         THEN AnsweredLines(c, n - 1)
         ELSE Append(AnsweredLines(c, n - 1), n)

\* C21: on one connection the replies are written in the order in which the
\* non-empty lines arrived, one reply per non-empty line and none for a line
\* that is empty after trimming; every command in the history is of a line
\* whose predecessors have their replies written already.
C21_RepliesInArrivalOrder ==
    \A c \in ConnIds :
        LET answered == AnsweredLines(c, Len(inp[c]))
        IN  /\ Len(out[c]) = Len(answered)
            /\ \A m \in DOMAIN answered : out[c][m] = ReplyOf(c, answered[m])
            /\ \A i \in DOMAIN hist : hist[i].c = c =>
                  \/ hist[i].n = Len(inp[c]) /\ conn[c].pc # "select"
                  \/ \E m \in DOMAIN answered : answered[m] = hist[i].n
            /\ conn[c].pc = "select" => \A i, j \in DOMAIN hist :
                  (hist[i].c = c /\ hist[j].c = c /\ i < j) => hist[i].n <= hist[j].n

\* C21 witness: three lines were read, a blank one between two that are not,
\* and two replies are written, the first an error's
C21_Witness ==
    \E c \in ConnIds :
        /\ Len(inp[c]) = 3
        /\ TrimEnd(inp[c][1]) # <<>> /\ TrimEnd(inp[c][2]) = <<>>
        /\ TrimEnd(inp[c][3]) # <<>>
        /\ Len(out[c]) = 2
        /\ out[c][1] = ERR_INVALID_ARGUMENTS
        /\ out[c][2] # ERR_INVALID_ARGUMENTS

\* C22: SET k v [ttl] replaces the whole entry of k: the new entry has the
\* expiration now + ttl when a TTL is given (now read between the arrival of
\* the line and its critical section) and none when no TTL is given,
\* whatever the expiration of the entry it replaces.
C22_SetReplacesEntry ==
    \A i \in DOMAIN hist :
        IsCmd(hist[i], W_SET) =>
            /\ hist[i].reply = OK
            /\ \E stored \in hist[i].post :
                  /\ hist[i].post = {stored}
                  /\ stored.value = SetValue(hist[i].parts[3])
                  /\ IF HasTtl(hist[i])
                     THEN \E t0 \in 0..hist[i].t :
                             stored.expires_at = {t0 + d : d \in TtlOf(hist[i])}
                     ELSE stored.expires_at = {}

\* C22 witness: a SET without TTL was executed on a key whose entry had an
\* expiration that had not lapsed
C22_Witness ==
    \E i \in DOMAIN hist :
        /\ IsCmd(hist[i], W_SET) /\ ~HasTtl(hist[i])
        /\ LiveBefore(hist[i])
        /\ \E stored \in hist[i].pre : stored.expires_at # {}

\* the line of LIST for the entry of key: key=value,expiry with expiry the
\* expiration in seconds or no-expiration
EntryLine(key) ==
    key \o <<"=">> \o
    (IF store[key].value.tag = "Int" THEN FormatInt(store[key].value.i)
     ELSE store[key].value.s) \o <<",">> \o
    (IF store[key].expires_at = {} THEN NO_EXPIRATION
     ELSE FormatInt(CHOOSE e \in store[key].expires_at : TRUE))

\* the lines of a reply: the pieces its newlines end
LinesOf(reply) == SubSeq(Split(reply, "\n"), 1, Len(Split(reply, "\n")) - 1)

\* C25: LIST replies one line key=value,expiry for each entry that is in
\* the map, all of one snapshot: while LIST is in its critical section its
\* reply has as many lines as the map has entries, each entry's line among
\* them; on a map with no entry the reply is one empty line; LIST has no
\* effect on the map.
C25_ListIsOneSnapshot ==
    \A c \in ConnIds :
        (conn[c].pc = "crit" /\ conn[c].req.op = "LIST") =>
            /\ conn[c].cs.eff = NoEffect
            /\ IF DOMAIN store = {} THEN conn[c].cs.reply = NL
               ELSE /\ Len(LinesOf(conn[c].cs.reply)) = Cardinality(DOMAIN store)
                    /\ \A key \in DOMAIN store :
                          \E m \in DOMAIN LinesOf(conn[c].cs.reply) :
                              LinesOf(conn[c].cs.reply)[m] = EntryLine(key)
                    /\ conn[c].cs.reply[Len(conn[c].cs.reply)] = "\n"

\* C25 witness: LIST is in its critical section on a map of two entries, one
\* with an expiration and one without, while a command of the other
\* connection waits for the lock
C25_Witness ==
    \E c, d \in ConnIds :
        /\ conn[c].pc = "crit" /\ conn[c].req.op = "LIST"
        /\ Cardinality(DOMAIN store) = 2
        /\ \E key \in DOMAIN store : store[key].expires_at # {}
        /\ \E key \in DOMAIN store : store[key].expires_at = {}
        /\ conn[d].pc = "lock" /\ conn[d].req.op = "SET"

\* the tasks inside the critical section of a mutating operation (GET, SET,
\* INCR, DEL of a handler, a pass of the sweeper), and of a LIST
Mutating ==
    {c \in ConnIds : conn[c].pc = "crit" /\ conn[c].req.op # "LIST"} \cup
    (IF sweep.pc = "crit" THEN {SweeperTask} ELSE {})
Listing == {c \in ConnIds : conn[c].pc = "crit" /\ conn[c].req.op = "LIST"}

\* C30: at no time are two mutating store operations of any tasks inside
\* their critical sections together, and no LIST is inside its critical
\* section together with a mutating operation.
C30_MutualExclusion ==
    /\ Cardinality(Mutating) <= 1
    /\ Mutating # {} => Listing = {}

\* C30 witness: two LISTs are inside their critical sections together, on a
\* map that has entries
C30_Witness == Cardinality(Listing) = 2 /\ store # EmptyStore

\* C27: a read failure, a write failure or a disconnect on one connection
\* ends only that connection's handler: the step in which a client's end is
\* closed, and the step in which a handler returns, leave the store, the
\* lock, the sweeper, the accept loop and every other handler as they were.
C27_IoFaultEndsOnlyItsHandler ==
    [][\A c \in ConnIds :
          ( \/ peer'[c] # peer[c]
            \/ conn[c].pc # "closed" /\ conn'[c].pc = "closed" )
          => /\ store' = store
             /\ lockW' = lockW /\ lockR' = lockR
             /\ sweep' = sweep
             /\ mainPc' = mainPc
             /\ \A d \in ConnIds \ {c} :
                   conn'[d] = conn[d] /\ out'[d] = out[d] /\ peer'[d] = peer[d]
      ]_vars

\* C27 witness: a handler has returned on the closed connection of its
\* client, after its command was executed, while another handler is inside
\* a critical section
C27_Witness ==
    \E c, d \in ConnIds :
        /\ conn[c].pc = "closed" /\ peer[c] = "closed"
        /\ \E i \in DOMAIN hist : hist[i].c = c
        /\ conn[d].pc = "crit"

\* what a sequence of lines (none a batch, none with a TTL) gives when its
\* commands are run one after the other from the map st: the replies and
\* the map. Nothing of it depends on the logger.
RECURSIVE RunOf(_, _)
RunOf(lines, st) ==
    IF lines = <<>> THEN [replies |-> <<>>, store |-> st]
    ELSE LET trimmed == TrimEnd(Head(lines))
             v       == Validate(SplitWhitespace(trimmed), 0)
         IN  IF trimmed = <<>> THEN RunOf(Tail(lines), st)
             ELSE IF v.kind = "done"
                  THEN LET r == RunOf(Tail(lines), st)
                       IN  [replies |-> <<v.reply>> \o r.replies, store |-> r.store]
                  ELSE LET o == StoreExec(v, st, 0, <<>>)
                           r == RunOf(Tail(lines), ApplyEffect(st, o.eff))
                       IN  [replies |-> <<o.reply>> \o r.replies, store |-> r.store]

ReadOf(c, texts) ==
    {m \in 1..cli[c].pos : Trim(StreamLines(c)[m]) \in texts}
ReadNotOf(c, texts) ==
    {m \in 1..cli[c].pos : Trim(StreamLines(c)[m]) \notin texts}

\* C29: send_command never returns an UPONG line as the response to a
\* command: it discards every UPONG it reads, returns an error for every
\* TERM, and a response for every other line.
C29_ClientDiscardsUpong ==
    \A c \in ConnIds :
        /\ \A m \in DOMAIN cli[c].got :
              cli[c].got[m].kind = "Ok" => cli[c].got[m].value # Trim(UPONG)
        /\ Cardinality({m \in DOMAIN cli[c].got : cli[c].got[m].kind = "Err"})
              = Cardinality(ReadOf(c, {Trim(TERM)}))
        /\ Cardinality({m \in DOMAIN cli[c].got : cli[c].got[m].kind = "Ok"})
              = Cardinality(ReadNotOf(c, {Trim(TERM), Trim(UPONG)}))

\* C29 witness: the client has read two UPONG lines and then a reply, which
\* is what it got
C29_Witness ==
    \E c \in ConnIds :
        /\ cli[c].pos = 3
        /\ Cardinality(ReadOf(c, {Trim(UPONG)})) = 2
        /\ Len(cli[c].got) = 1
        /\ cli[c].got[1].kind = "Ok"

\* C26: no line a client sends, whatever its content, ends the handler or
\* closes the connection: while the client's end is open and no shutdown
\* was signalled, the handler of an accepted connection is live, and every
\* line it has finished with was answered.
C26_NoLineEndsHandler ==
    \A c \in ConnIds :
        (peer[c] = "open" /\ sigPc = "wait" /\ mainPc = "accept") =>
            /\ conn[c].pc \notin {"closed", "dropped"}
            /\ conn[c].pc = "select" =>
                  Len(out[c]) = Cardinality({m \in DOMAIN inp[c] : TrimEnd(inp[c][m]) # <<>>})

\* the decimal text of i + 1, for the integer a stored value holds
SuccessorText(v) ==
    CASE v.tag = "Int" -> FormatInt(v.i + 1)
      [] v.tag = "Wide" /\ ~v.neg -> BigAdd(v.digits, <<"1">>)
      [] v.tag = "Wide" /\ v.neg -> <<"-">> \o BigSub(v.digits, <<"1">>)

\* C24: for every stored Integer(i) of the 64-bit signed range, including
\* the largest, INCR replaces it with i+1 and replies i+1; INCR never fails
\* and never leaves the command without a reply.
C24_IncrAddsOneToEveryInteger ==
    /\ \A i \in DOMAIN hist :
          IsCmd(hist[i], W_INCR) =>
              \A stored \in hist[i].pre :
                  (stored.value.tag # "Str" /\ ~Expired(stored, hist[i].t)) =>
                      /\ hist[i].reply = SuccessorText(stored.value) \o NL
                      /\ \E new \in hist[i].post :
                            ValueText(new.value) = SuccessorText(stored.value)
    /\ \A c \in ConnIds :
          \A m \in DOMAIN inp[c] :
              ( /\ m < Len(inp[c]) \/ conn[c].pc \in {"select", "panicked"}
                /\ SplitWhitespace(inp[c][m])[1] = W_INCR
                /\ Len(SplitWhitespace(inp[c][m])) = 2 ) =>
                  Len(out[c]) >= m

\* the number and the seconds per unit of a token <n>s, <n>min or <n>h with
\* n a decimal of the unsigned 64-bit range
ValidTtl(token) ==
    {u \in {[n |-> StripZeros(SubSeq(token, 1, Len(token) - Len(x.suffix))), per |-> x.per] :
               x \in {y \in {[suffix |-> <<"s">>, per |-> 1],
                             [suffix |-> <<"m", "i", "n">>, per |-> 60],
                             [suffix |-> <<"h">>, per |-> 3600]} :
                         /\ EndsWith(token, y.suffix)
                         /\ AllDigits(SubSeq(token, 1, Len(token) - Len(y.suffix)))}} :
        BigLeq(u.n, U64Max)}

\* C23: for every n that is a valid unsigned 64-bit decimal, the TTL tokens
\* <n>s, <n>min and <n>h make SET (and INCR on a new key) store an
\* expiration exactly n, 60*n and 3600*n seconds after the time of the
\* command (a time between the arrival of its line and its critical
\* section), and the command replies normally.
C23_ValidTtlStoredExactly ==
    /\ \A i \in DOMAIN hist :
          ( /\ HasTtl(hist[i])
            /\ IsCmd(hist[i], W_SET) \/ (IsCmd(hist[i], W_INCR) /\ hist[i].pre = {}) ) =>
              \A u \in ValidTtl(hist[i].parts[Len(hist[i].parts)]) :
                  /\ hist[i].reply = (IF IsCmd(hist[i], W_SET) THEN OK ELSE FormatInt(1) \o NL)
                  /\ \E stored \in hist[i].post :
                        \E t0 \in 0..hist[i].t :
                            {FormatNat(e) : e \in stored.expires_at}
                                = {BigAdd(FormatNat(t0), BigMul(u.n, u.per))}
    /\ \A c \in ConnIds :
          \A m \in DOMAIN inp[c] :
              ( /\ m < Len(inp[c]) \/ conn[c].pc \in {"select", "panicked"}
                /\ \E w \in {W_SET, W_INCR} : StartsWith(inp[c][m], w)
                /\ LET parts == SplitWhitespace(inp[c][m])
                   IN  ValidTtl(parts[Len(parts)]) # {} ) =>
                  /\ Len(out[c]) >= m
                  /\ ~StartsWith(out[c][m], <<"E", "R", "R", "O", "R">>)

\* C32: a sweeper pass run at time now leaves the store equal to exactly the
\* entries it had before whose expiration is none or strictly later than
\* now: every entry with expires_at <= now is removed, no other entry is
\* removed or changed.
C32_SweepRemovesExactlyDue ==
    [][ (sweep.pc = "crit" /\ sweep'.pc = "idle") =>
            store' = [k \in {x \in DOMAIN store :
                                \/ store[x].expires_at = {}
                                \/ \E e \in store[x].expires_at : e > sweep.now} |->
                         store[k]] ]_vars

\* C32 witness: the last store command was a SET with a TTL, and its key is
\* no longer in the store: a sweeper pass has removed the entry
C32_Witness ==
    /\ hist # <<>>
    /\ IsCmd(hist[Len(hist)], W_SET) /\ HasTtl(hist[Len(hist)])
    /\ KeyOf(hist[Len(hist)]) \notin DOMAIN store
    /\ sweep.pc = "idle"
    /\ now = 1

\* text that is a literal of a 64-bit signed integer: an optional sign, then
\* decimal digits of a number from -9223372036854775808 to
\* 9223372036854775807
IsI64Literal(text) ==
    LET signed == text # <<>> /\ Head(text) \in {"+", "-"}
        digits == IF signed THEN Tail(text) ELSE text
    IN  /\ AllDigits(digits)
        /\ BigLeq(StripZeros(digits),
                  IF text[1] = "-" THEN I64MinMagnitude ELSE I64Max)

\* C35: in every reachable state no entry of the store holds a Text value
\* that is a valid 64-bit signed integer literal: a SET of such a literal is
\* stored as Integer, every other SET value as Text, and INCR only ever
\* stores Integer.
C35_NoIntegerLiteralAsText ==
    /\ \A key \in DOMAIN store :
          store[key].value.tag = "Str" => ~IsI64Literal(store[key].value.s)
    /\ \A i \in DOMAIN hist :
          /\ IsCmd(hist[i], W_SET) =>
                \A stored \in hist[i].post :
                    (stored.value.tag = "Str") = ~IsI64Literal(hist[i].parts[3])
          /\ (IsCmd(hist[i], W_INCR) /\ hist[i].post # hist[i].pre) =>
                \A stored \in hist[i].post : stored.value.tag # "Str"

\* C35 witness: the store holds the digits of 2^63 as Text (one beyond the
\* largest integer), after a SET of a signed literal that was stored as an
\* Integer and an INCR
C35_Witness ==
    /\ \E key \in DOMAIN store : store[key].value = StrV(I64MinMagnitude)
    /\ \E i \in DOMAIN hist :
          /\ IsCmd(hist[i], W_SET)
          /\ hist[i].parts[3] = <<"+", "0", "7">>
          /\ hist[i].post = {StoredValue(IntV(7), {})}
    /\ \E i \in DOMAIN hist : IsCmd(hist[i], W_INCR)

\* C36: in every reachable state, after any sequence of commands (BATCH
\* sub-commands included), every key in the store is at most 100 bytes long
\* and every Text value in the store is at most 100 bytes long.
C36_StoredSizesBounded ==
    \A key \in DOMAIN store :
        /\ Len(key) <= 100
        /\ store[key].value.tag = "Str" => Len(store[key].value.s) <= 100

\* C36 witness: a key of 100 bytes holds a Text value of 100 bytes, and a
\* BATCH whose second command sets a key of 101 bytes has incremented k and
\* answered the second command with an error
C36_Witness ==
    /\ AtLimit \in DOMAIN store
    /\ store[AtLimit].value = StrV(AtLimit)
    /\ K \in DOMAIN store
    /\ \E m \in DOMAIN out[1] :
          out[1][m] = <<"1", ";">> \o ERR_INVALID_LENGTH

\* C33: once the shutdown message is in a handler's receiver and the handler
\* is at its wait point, the handler reads no further line and writes no
\* further heartbeat: its only step from there is the shutdown branch.
C33_ShutdownHonouredAtWaitPoint ==
    [][ \A c \in ConnIds :
           (rx[c] /\ conn[c].pc = "select") =>
               /\ nlines'[c] = nlines[c]
               /\ beats'[c] = beats[c] ]_vars

\* C34: nothing is written on a connection after TERM, and a handler that
\* has left Active (returned, dropped with the runtime, or ended by a panic)
\* reads no line and writes nothing more.
C34_NothingAfterTermOrClose ==
    [][ \A c \in ConnIds :
           /\ (\E m \in DOMAIN out[c] : out[c][m] = TERM) => out'[c] = out[c]
           /\ conn[c].pc \in {"closed", "dropped", "panicked"} =>
                 /\ out'[c] = out[c]
                 /\ nlines'[c] = nlines[c]
                 /\ inp'[c] = inp[c]
                 /\ beats'[c] = beats[c] ]_vars

\* C34 witness: a handler has written TERM after other output and returned
\* while its client is still connected and could send a line, and another
\* handler has returned without TERM on the end of its client's stream
C34_Witness ==
    \E c, d \in ConnIds :
        /\ conn[c].pc = "closed"
        /\ peer[c] = "open"
        /\ nlines[c] < MaxLines
        /\ Len(out[c]) >= 2
        /\ out[c][Len(out[c])] = TERM
        /\ conn[d].pc = "closed"
        /\ peer[d] = "closed"
        /\ \A m \in DOMAIN out[d] : out[d][m] # TERM

\* C31: no task holds the store lock while it is suspended: a handler holds
\* a guard only inside a critical section, never while it waits for a line,
\* a timer or the shutdown message, for the lock, on the logging sink, or
\* while it writes a reply; the sweeper holds one only inside its pass.
C31_NoLockWhileSuspended ==
    /\ \A c \in ConnIds : c \in lockW \cup lockR => conn[c].pc = "crit"
    /\ SweeperTask \in lockW => sweep.pc = "crit"
    /\ lockW \cup lockR \subseteq ConnIds \cup {SweeperTask}

\* C31 witness: the handler waits on a logging sink that cannot be reached,
\* after its command was executed and a heartbeat written, while the sweeper
\* holds the lock
C31_Witness ==
    /\ conn[1].pc = "logproc"
    /\ sink = "unreachable"
    /\ hist # <<>>
    /\ beats[1] > 0
    /\ SweeperTask \in lockW

\* C40: on every connection, what the handler wrote, the UPONG and TERM lines
\* left out, is the complete replies of its commands in order, each written
\* as one piece: no UPONG line is inside a reply or between the lines of a
\* LIST reply.
C40_HeartbeatBetweenReplies ==
    \A c \in ConnIds :
        LET written == SelectSeq(out[c], LAMBDA x : x \notin {UPONG, TERM})
            replies == SelectSeq(hist, LAMBDA h : h.c = c)
        IN  /\ Len(written) <= Len(replies)
            /\ \A m \in DOMAIN written : written[m] = replies[m].reply

\* C40 witness: a LIST reply of two lines was written right after an UPONG
C40_Witness ==
    \E m \in DOMAIN out[1] :
        /\ m > 1
        /\ out[1][m - 1] = UPONG
        /\ Len(LinesOf(out[1][m])) = 2
        /\ \E i \in DOMAIN hist : IsCmd(hist[i], W_LIST) /\ hist[i].reply = out[1][m]

\* C37: every line a client sends is dispatched intact, also when it reaches
\* the server in fragments with a heartbeat tick between them: every line a
\* handler has read is a line its client wrote, whole.
C37_LinesDispatchedIntact ==
    \A c \in ConnIds : \A m \in DOMAIN inp[c] : inp[c][m] \in SysLines

\* C38: the response each call of the client returns is the server's
\* complete reply to that same call: the m-th response is the whole of what
\* the handler wrote for the m-th line (no heartbeat is written here).
C38_CallGetsItsWholeReply ==
    \A c \in ConnIds : \A m \in DOMAIN cli[c].got :
        /\ m <= Len(out[c])
        /\ cli[c].got[m].value = Trim(out[c][m])

\* C39: a failed accept does not end the server: as long as no shutdown was
\* signalled the accept loop is accepting, the sweeper is running and no
\* handler is dropped with the runtime.
C39_FailedAcceptLeavesServerRunning ==
    sigPc = "wait" =>
        /\ mainPc = "accept"
        /\ sweep.pc # "done"
        /\ \A c \in ConnIds : conn[c].pc # "dropped"

====
